---- MODULE Spec2Model ----
(***************************************************************************)
(* A model of bluesky-firehose-stream: the frame codec                     *)
(* (src/src/subscription/types.rs), the subscription's pull loop           *)
(* (src/src/subscription.rs) and the event decoder (src/src/lib.rs).       *)
(*                                                                         *)
(* A payload is a sequence of bytes (0..255).  DAG-CBOR is decoded byte by *)
(* byte by DecodeItem, and encoded by the separate operator EncodeItem     *)
(* that builds the payloads fed to the decoders.                           *)
(***************************************************************************)
EXTENDS Integers, Sequences, FiniteSets, TLC

(***************************************************************************)
(* Bytes and text.                                                         *)
(***************************************************************************)
Drop(s, n) == SubSeq(s, n + 1, Len(s))
Take(s, n) == SubSeq(s, 1, n)

KeyOp == <<111, 112>>
KeyT == <<116>>
TagCommit == <<35, 99, 111, 109, 109, 105, 116>>
TagHandle == <<35, 104, 97, 110, 100, 108, 101>>
TagTombstone == <<35, 116, 111, 109, 98, 115, 116, 111, 110, 101>>
TagIdentity == <<35, 105, 100, 101, 110, 116, 105, 116, 121>>
TagAccount == <<35, 97, 99, 99, 111, 117, 110, 116>>
TagInfo == <<35, 105, 110, 102, 111>>
TagNoHash == <<99, 111, 109, 109, 105, 116>>
PathPost == <<97, 112, 112, 46, 98, 115, 107, 121, 46, 102, 101, 101, 100, 46, 112, 111, 115, 116, 47, 51, 107, 97, 98, 99>>
TextHi == <<104, 105>>
KeyDid == <<100, 105, 100>>
KeyHandle == <<104, 97, 110, 100, 108, 101>>
KeySeq == <<115, 101, 113>>
KeyTime == <<116, 105, 109, 101>>
KeyActive == <<97, 99, 116, 105, 118, 101>>
KeyStatus == <<115, 116, 97, 116, 117, 115>>
KeyRepo == <<114, 101, 112, 111>>
KeyRev == <<114, 101, 118>>
KeyBlocks == <<98, 108, 111, 99, 107, 115>>
KeyOps == <<111, 112, 115>>
KeyCommit == <<99, 111, 109, 109, 105, 116>>
KeyBlobs == <<98, 108, 111, 98, 115>>
KeyRebase == <<114, 101, 98, 97, 115, 101>>
KeyTooBig == <<116, 111, 111, 66, 105, 103>>
KeySince == <<115, 105, 110, 99, 101>>
KeyPrev == <<112, 114, 101, 118>>
KeyAction == <<97, 99, 116, 105, 111, 110>>
KeyPath == <<112, 97, 116, 104>>
KeyCid == <<99, 105, 100>>
KeyRoots == <<114, 111, 111, 116, 115>>
KeyVersion == <<118, 101, 114, 115, 105, 111, 110>>
KeyText == <<116, 101, 120, 116>>
KeyCreatedAt == <<99, 114, 101, 97, 116, 101, 100, 65, 116>>
KeySubject == <<115, 117, 98, 106, 101, 99, 116>>
KeyUri == <<117, 114, 105>>
KeyList == <<108, 105, 115, 116>>
KeyName == <<110, 97, 109, 101>>
KeyPurpose == <<112, 117, 114, 112, 111, 115, 101>>
KeyDisplayName == <<100, 105, 115, 112, 108, 97, 121, 78, 97, 109, 101>>
KeyType == <<36, 116, 121, 112, 101>>
ActionCreate == <<99, 114, 101, 97, 116, 101>>
ActionUpdate == <<117, 112, 100, 97, 116, 101>>
ActionDelete == <<100, 101, 108, 101, 116, 101>>
ActionMove == <<109, 111, 118, 101>>
NsidPost == <<97, 112, 112, 46, 98, 115, 107, 121, 46, 102, 101, 101, 100, 46, 112, 111, 115, 116>>
NsidFollow == <<97, 112, 112, 46, 98, 115, 107, 121, 46, 103, 114, 97, 112, 104, 46, 102, 111, 108, 108, 111, 119>>
NsidBlock == <<97, 112, 112, 46, 98, 115, 107, 121, 46, 103, 114, 97, 112, 104, 46, 98, 108, 111, 99, 107>>
NsidRepost == <<97, 112, 112, 46, 98, 115, 107, 121, 46, 102, 101, 101, 100, 46, 114, 101, 112, 111, 115, 116>>
NsidLike == <<97, 112, 112, 46, 98, 115, 107, 121, 46, 102, 101, 101, 100, 46, 108, 105, 107, 101>>
NsidListitem == <<97, 112, 112, 46, 98, 115, 107, 121, 46, 103, 114, 97, 112, 104, 46, 108, 105, 115, 116, 105, 116, 101, 109>>
NsidGenerator == <<97, 112, 112, 46, 98, 115, 107, 121, 46, 102, 101, 101, 100, 46, 103, 101, 110, 101, 114, 97, 116, 111, 114>>
NsidProfile == <<97, 112, 112, 46, 98, 115, 107, 121, 46, 97, 99, 116, 111, 114, 46, 112, 114, 111, 102, 105, 108, 101>>
NsidList == <<97, 112, 112, 46, 98, 115, 107, 121, 46, 103, 114, 97, 112, 104, 46, 108, 105, 115, 116>>
NsidStarterpack == <<97, 112, 112, 46, 98, 115, 107, 121, 46, 103, 114, 97, 112, 104, 46, 115, 116, 97, 114, 116, 101, 114, 112, 97, 99, 107>>
NsidNewthing == <<97, 112, 112, 46, 98, 115, 107, 121, 46, 102, 101, 101, 100, 46, 110, 101, 119, 116, 104, 105, 110, 103>>
DidA == <<100, 105, 100, 58, 112, 108, 99, 58, 97, 98, 99>>
HandleA == <<97, 46, 116, 101, 115, 116>>
TimeA == <<50, 48, 50, 52, 45, 48, 49, 45, 48, 49, 84, 48, 48, 58, 48, 48, 58, 48, 48, 90>>
RevA == <<51, 107, 97, 98, 99>>
NotADid == <<110, 111, 98, 111, 100, 121>>
NotATime == <<121, 101, 115, 116, 101, 114, 100, 97, 121>>

\* Rust's Ord on String: bytewise lexicographic order (BTreeMap<String, Ipld>).
RECURSIVE StrLess(_, _)
StrLess(a, b) ==
    IF Len(b) = 0 THEN FALSE
    ELSE IF Len(a) = 0 THEN TRUE
    ELSE IF a[1] # b[1] THEN a[1] < b[1]
    ELSE StrLess(Tail(a), Tail(b))

IsCont(x) == x >= 128 /\ x <= 191

\* std::str::from_utf8 on b[from..=to]: the well-formed UTF-8 byte sequences.
RECURSIVE Utf8Valid(_, _, _)
Utf8Valid(b, from, to) ==
    IF from > to THEN TRUE
    ELSE LET x == b[from] IN
      IF x < 128 THEN Utf8Valid(b, from + 1, to)
      ELSE IF x >= 194 /\ x <= 223
        THEN from + 1 <= to /\ IsCont(b[from + 1]) /\ Utf8Valid(b, from + 2, to)
      ELSE IF x >= 224 /\ x <= 239
        THEN /\ from + 2 <= to
             /\ IsCont(b[from + 1]) /\ IsCont(b[from + 2])
             /\ (x = 224 => b[from + 1] >= 160)
             /\ (x = 237 => b[from + 1] <= 159)
             /\ Utf8Valid(b, from + 3, to)
      ELSE IF x >= 240 /\ x <= 244
        THEN /\ from + 3 <= to
             /\ IsCont(b[from + 1]) /\ IsCont(b[from + 2]) /\ IsCont(b[from + 3])
             /\ (x = 240 => b[from + 1] >= 144)
             /\ (x = 244 => b[from + 1] <= 143)
             /\ Utf8Valid(b, from + 4, to)
      ELSE FALSE

(***************************************************************************)
(* ipld_core::ipld::Ipld, as one record shape for every variant.  A Map    *)
(* keeps its keys sorted (BTreeMap): keys[i] is the key of items[i].       *)
(***************************************************************************)
IpldNone == [tag |-> "None", int |-> 0, bytes |-> <<>>, keys |-> <<>>, items |-> <<>>]
IpldNull == [IpldNone EXCEPT !.tag = "Null"]
IpldBool(x) == [IpldNone EXCEPT !.tag = "Bool", !.int = IF x THEN 1 ELSE 0]
IpldInteger(i) == [IpldNone EXCEPT !.tag = "Integer", !.int = i]
IpldFloat(b) == [IpldNone EXCEPT !.tag = "Float", !.bytes = b]
IpldString(s) == [IpldNone EXCEPT !.tag = "String", !.bytes = s]
IpldBytes(b) == [IpldNone EXCEPT !.tag = "Bytes", !.bytes = b]
IpldLink(c) == [IpldNone EXCEPT !.tag = "Link", !.bytes = c]
IpldList(xs) == [IpldNone EXCEPT !.tag = "List", !.items = xs]
IpldMap(ks, xs) == [IpldNone EXCEPT !.tag = "Map", !.keys = ks, !.items = xs]

\* BTreeMap::get
HasKey(m, k) == \E i \in 1..Len(m.keys) : m.keys[i] = k
MapGet(m, k) == m.items[CHOOSE i \in 1..Len(m.keys) : m.keys[i] = k]

\* BTreeMap::insert of a key the map does not hold yet: at its sorted place.
InsertAt(s, i, x) == Take(s, i - 1) \o <<x>> \o Drop(s, i - 1)
SortedPlace(ks, k) == 1 + Cardinality({i \in 1..Len(ks) : StrLess(ks[i], k)})
MapInsert(m, k, v) ==
    IpldMap(InsertAt(m.keys, SortedPlace(m.keys, k), k),
            InsertAt(m.items, SortedPlace(m.keys, k), v))

(***************************************************************************)
(* Content identifiers.  A CID is (version, codec, multihash code, digest);*)
(* its bytes are the varints version, codec, code, size and the digest, or *)
(* for version 0 the bare sha2-256 multihash (0x12 0x20 and 32 bytes).     *)
(* cid_old::Cid (the CAR reader's) and cid::Cid (the CBOR decoder's) read  *)
(* the same bytes.                                                         *)
(***************************************************************************)
SHA2_256 == 18
DAG_PB == 112
DAG_CBOR == 113
DigestSize == 32
MaxDigestSize == 64

NoCid == [version |-> 0 - 1, codec |-> 0, code |-> 0, digest |-> <<>>]
CidV1(codec, code, digest) ==
    [version |-> 1, codec |-> codec, code |-> code, digest |-> digest]
CidV0(digest) ==
    [version |-> 0, codec |-> DAG_PB, code |-> SHA2_256, digest |-> digest]

\* unsigned-varint (LEB128), at most 3 bytes here; pos counts bytes consumed.
RECURSIVE ReadVarint(_, _, _, _)
ReadVarint(b, pos, shift, acc) ==
    IF pos >= Len(b) \/ shift > 16384 THEN [ok |-> FALSE, n |-> 0, pos |-> pos]
    ELSE IF b[pos + 1] < 128
      THEN [ok |-> TRUE, n |-> acc + b[pos + 1] * shift, pos |-> pos + 1]
    ELSE ReadVarint(b, pos + 1, shift * 128, acc + (b[pos + 1] - 128) * shift)

EncodeVarint(n) ==
    IF n < 128 THEN <<n>>
    ELSE IF n < 16384 THEN <<128 + (n % 128), n \div 128>>
    ELSE <<128 + (n % 128), 128 + ((n \div 128) % 128), n \div 16384>>

CidFail == [ok |-> FALSE, cid |-> NoCid, pos |-> 0]

\* Cid::read_bytes: from b, starting after pos bytes.
ReadCid(b, pos) ==
    LET WithSize(codec, code, size) ==
          IF ~size.ok THEN CidFail
          ELSE IF size.n > MaxDigestSize \/ size.pos + size.n > Len(b) THEN CidFail
          ELSE [ok |-> TRUE,
                cid |-> CidV1(codec.n, code.n, SubSeq(b, size.pos + 1, size.pos + size.n)),
                pos |-> size.pos + size.n]
        WithCode(codec, code) ==
          IF ~code.ok THEN CidFail
          ELSE WithSize(codec, code, ReadVarint(b, code.pos, 1, 0))
        WithCodec(version, codec) ==
          IF ~codec.ok THEN CidFail
          ELSE IF version.n = SHA2_256 /\ codec.n = DigestSize THEN
            IF codec.pos + DigestSize > Len(b) THEN CidFail
            ELSE [ok |-> TRUE,
                  cid |-> CidV0(SubSeq(b, codec.pos + 1, codec.pos + DigestSize)),
                  pos |-> codec.pos + DigestSize]
          ELSE IF version.n # 1 THEN CidFail
          ELSE WithCode(codec, ReadVarint(b, codec.pos, 1, 0))
        WithVersion(version) ==
          IF ~version.ok THEN CidFail
          ELSE WithCodec(version, ReadVarint(b, version.pos, 1, 0))
    IN WithVersion(ReadVarint(b, pos, 1, 0))

\* Cid::to_bytes
CidBytes(c) ==
    IF c.version = 0 THEN <<SHA2_256, DigestSize>> \o c.digest
    ELSE EncodeVarint(1) \o EncodeVarint(c.codec) \o EncodeVarint(c.code)
         \o EncodeVarint(Len(c.digest)) \o c.digest

\* Cid::try_from(bytes): the whole of b is one CID.
CidFromBytes(b) ==
    LET Whole(r) == IF r.ok /\ r.pos = Len(b) THEN r ELSE CidFail
    IN Whole(ReadCid(b, 0))

\* Cid::to_string: the multibase form.  The base-32 (version 1) and base-58
\* (version 0) digits are not computed: the text is the multibase prefix "b"
\* (version 1) or "Q" (version 0) and then the CID's bytes.
CidToString(c) == (IF c.version = 0 THEN <<81>> ELSE <<98>>) \o CidBytes(c)

\* Multihash::to_bytes and Multihash::from_bytes (no byte may be left over).
MultihashBytes(code, digest) ==
    EncodeVarint(code) \o EncodeVarint(Len(digest)) \o digest
Multihash_from_bytes(b) ==
    LET NoHash == [ok |-> FALSE, code |-> 0, digest |-> <<>>]
        WithSize(code, size) ==
          IF ~size.ok THEN NoHash
          ELSE IF size.n > MaxDigestSize \/ size.pos + size.n # Len(b) THEN NoHash
          ELSE [ok |-> TRUE, code |-> code.n, digest |-> Drop(b, size.pos)]
        WithCode(code) ==
          IF ~code.ok THEN NoHash ELSE WithSize(code, ReadVarint(b, code.pos, 1, 0))
    IN WithCode(ReadVarint(b, 0, 1, 0))

\* A variant of Cid::new that admits no version 0 CID.
Cid_new_NoVersion0(version, codec, code, digest) ==
    IF version = 0
      THEN [ok |-> FALSE, cid |-> NoCid]
    ELSE [ok |-> TRUE,
          cid |-> [version |-> version, codec |-> codec, code |-> code, digest |-> digest]]

\* Cid::new: a version 0 CID is dag-pb with a 32-byte sha2-256 digest.
Cid_new(version, codec, code, digest) ==
    IF version = 0 /\ (codec # DAG_PB \/ code # SHA2_256 \/ Len(digest) # DigestSize)
      THEN [ok |-> FALSE, cid |-> NoCid]
    ELSE [ok |-> TRUE,
          cid |-> [version |-> version, codec |-> codec, code |-> code, digest |-> digest]]

\* impl TryFrom<CidOld> for Cid: the version and the codec carried over, the
\* multihash through its bytes (`?`), then Cid::new.
CidOld_try_into(c) ==
    LET WithHash(hash) ==
          IF ~hash.ok THEN [ok |-> FALSE, cid |-> NoCid]
          ELSE Cid_new(c.version, c.codec, hash.code, hash.digest)
    IN WithHash(Multihash_from_bytes(MultihashBytes(c.code, c.digest)))

(***************************************************************************)
(* The DAG-CBOR decoder (serde_ipld_dagcbor's Deserializer reading one     *)
(* Ipld).  pos counts the bytes consumed so far; the result is             *)
(* [ok, val, pos]: on failure ok is FALSE and val and pos mean nothing.    *)
(***************************************************************************)
DecFail == [ok |-> FALSE, val |-> IpldNone, pos |-> 0]
DecOk(v, p) == [ok |-> TRUE, val |-> v, pos |-> p]

RECURSIVE BigEndian(_, _, _, _)
BigEndian(b, from, n, acc) ==
    IF n = 0 THEN acc ELSE BigEndian(b, from + 1, n - 1, acc * 256 + b[from])

ArgWidth(info) ==
    CASE info = 24 -> 1 [] info = 25 -> 2 [] info = 26 -> 4 [] info = 27 -> 8 [] OTHER -> 0

\* The argument of an initial byte whose additional information is info; pos is
\* the count of bytes consumed up to and including the initial byte.  28..30
\* are reserved and 31 (indefinite length) is not DAG-CBOR.
ReadArg(b, pos, info) ==
    IF info < 24 THEN [ok |-> TRUE, n |-> info, pos |-> pos]
    ELSE IF info > 27 \/ pos + ArgWidth(info) > Len(b)
      THEN [ok |-> FALSE, n |-> 0, pos |-> pos]
    ELSE [ok |-> TRUE, n |-> BigEndian(b, pos + 1, ArgWidth(info), 0),
          pos |-> pos + ArgWidth(info)]

RECURSIVE DecodeItem(_, _)
RECURSIVE DecodeList(_, _, _, _)
RECURSIVE DecodeEntries(_, _, _, _)

\* n further items of an array, appended to acc.
DecodeList(b, pos, n, acc) ==
    IF n = 0 THEN DecOk(IpldList(acc), pos)
    ELSE LET r == DecodeItem(b, pos) IN
      IF ~r.ok THEN DecFail ELSE DecodeList(b, r.pos, n - 1, Append(acc, r.val))

\* n further entries of a map, inserted into m: a key is a text string, and a
\* key met twice is an error ("Duplicate map key").
DecodeEntries(b, pos, n, m) ==
    IF n = 0 THEN DecOk(m, pos)
    ELSE LET k == DecodeItem(b, pos) IN
      IF ~k.ok \/ k.val.tag # "String" \/ HasKey(m, k.val.bytes) THEN DecFail
      ELSE LET v == DecodeItem(b, k.pos) IN
        IF ~v.ok THEN DecFail
        ELSE DecodeEntries(b, v.pos, n - 1, MapInsert(m, k.val.bytes, v.val))

DecodeItem(b, pos) ==
    IF pos >= Len(b) THEN DecFail
    ELSE LET major == b[pos + 1] \div 32
             info == b[pos + 1] % 32
             a == ReadArg(b, pos + 1, info)
         IN
      IF major = 7 THEN
        CASE info = 20 -> DecOk(IpldBool(FALSE), pos + 1)
          [] info = 21 -> DecOk(IpldBool(TRUE), pos + 1)
          [] info = 22 -> DecOk(IpldNull, pos + 1)
          [] info = 27 -> IF pos + 9 > Len(b) THEN DecFail
                          ELSE DecOk(IpldFloat(SubSeq(b, pos + 2, pos + 9)), pos + 9)
          [] OTHER -> DecFail
      ELSE IF ~a.ok THEN DecFail
      ELSE CASE major = 0 -> DecOk(IpldInteger(a.n), a.pos)
             [] major = 1 -> DecOk(IpldInteger(-1 - a.n), a.pos)
             [] major = 2 ->
                  IF a.pos + a.n > Len(b) THEN DecFail
                  ELSE DecOk(IpldBytes(SubSeq(b, a.pos + 1, a.pos + a.n)), a.pos + a.n)
             [] major = 3 ->
                  IF a.pos + a.n > Len(b) \/ ~Utf8Valid(b, a.pos + 1, a.pos + a.n)
                    THEN DecFail
                  ELSE DecOk(IpldString(SubSeq(b, a.pos + 1, a.pos + a.n)), a.pos + a.n)
             [] major = 4 -> DecodeList(b, a.pos, a.n, <<>>)
             [] major = 5 -> DecodeEntries(b, a.pos, a.n, IpldMap(<<>>, <<>>))
             [] OTHER ->
                  \* a tag: only 42 (a CID: a byte string that starts with 0x00)
                  IF a.n # 42 THEN DecFail
                  ELSE LET c == DecodeItem(b, a.pos) IN
                    IF ~c.ok \/ c.val.tag # "Bytes" THEN DecFail
                    ELSE IF Len(c.val.bytes) < 2 \/ c.val.bytes[1] # 0 THEN DecFail
                    ELSE IF ~CidFromBytes(Tail(c.val.bytes)).ok THEN DecFail
                    ELSE DecOk(IpldLink(Tail(c.val.bytes)), c.pos)

\* serde_ipld_dagcbor::from_reader::<Ipld, _>(&mut cursor): one item, then
\* Deserializer::end, which peeks (without consuming) for a further byte.
\* res is "Ok", "TrailingData" or "Error"; pos is cursor.position() after it.
from_reader(b) ==
    LET End(r) ==
          IF ~r.ok THEN [res |-> "Error", val |-> IpldNone, pos |-> 0]
          ELSE IF r.pos < Len(b) THEN [res |-> "TrailingData", val |-> r.val, pos |-> r.pos]
          ELSE [res |-> "Ok", val |-> r.val, pos |-> r.pos]
    IN End(DecodeItem(b, 0))

\* serde_ipld_dagcbor::from_slice::<Ipld>(b): the same decoder over a slice.
from_slice(b) ==
    LET End(r) ==
          IF r.ok /\ r.pos = Len(b) THEN [ok |-> TRUE, val |-> r.val]
          ELSE [ok |-> FALSE, val |-> IpldNone]
    IN End(DecodeItem(b, 0))

(***************************************************************************)
(* A DAG-CBOR encoder, used to build payloads.  A map is written with its  *)
(* entries in the order given (the decoder accepts any order).             *)
(***************************************************************************)
EncodeHead(major, n) ==
    IF n < 24 THEN <<major * 32 + n>>
    ELSE IF n < 256 THEN <<major * 32 + 24, n>>
    ELSE <<major * 32 + 25, n \div 256, n % 256>>

RECURSIVE EncodeItem(_)
RECURSIVE EncodeAll(_)
RECURSIVE EncodePairs(_, _)

EncodeAll(xs) ==
    IF Len(xs) = 0 THEN <<>> ELSE EncodeItem(Head(xs)) \o EncodeAll(Tail(xs))

EncodePairs(ks, xs) ==
    IF Len(ks) = 0 THEN <<>>
    ELSE EncodeHead(3, Len(Head(ks))) \o Head(ks) \o EncodeItem(Head(xs))
         \o EncodePairs(Tail(ks), Tail(xs))

EncodeMap(ks, xs) == EncodeHead(5, Len(ks)) \o EncodePairs(ks, xs)

EncodeItem(v) ==
    CASE v.tag = "Integer" ->
           IF v.int >= 0 THEN EncodeHead(0, v.int) ELSE EncodeHead(1, -1 - v.int)
      [] v.tag = "String" -> EncodeHead(3, Len(v.bytes)) \o v.bytes
      [] v.tag = "Bytes" -> EncodeHead(2, Len(v.bytes)) \o v.bytes
      [] v.tag = "List" -> EncodeHead(4, Len(v.items)) \o EncodeAll(v.items)
      [] v.tag = "Map" -> EncodeMap(v.keys, v.items)
      [] v.tag = "Bool" -> IF v.int = 1 THEN <<245>> ELSE <<244>>
      [] v.tag = "Float" -> <<251>> \o v.bytes
      [] v.tag = "Link" -> <<216, 42>> \o EncodeHead(2, Len(v.bytes) + 1) \o <<0>> \o v.bytes
      [] OTHER -> <<246>>

(***************************************************************************)
(* The frame codec: src/src/subscription/types.rs.                         *)
(***************************************************************************)
None == [some |-> FALSE, v |-> <<>>]
Some(s) == [some |-> TRUE, v |-> s]

NoFrame == [variant |-> "None", t |-> None, body |-> <<>>]
FrameMessage(t, body) == [variant |-> "Message", t |-> t, body |-> body]
FrameError == [variant |-> "Error", t |-> None, body |-> <<>>]

NoError == [kind |-> "None", data |-> <<>>, value |-> IpldNone]
InvalidFrameData(data) == [kind |-> "InvalidFrameData", data |-> data, value |-> IpldNone]
InvalidFrameType(value) == [kind |-> "InvalidFrameType", data |-> <<>>, value |-> value]
CborDecode == [kind |-> "CborDecode", data |-> <<>>, value |-> IpldNone]

\* Result<Frame, Error>; a FrameHeader is a Frame with an empty body.
Ok(frame) == [ok |-> TRUE, frame |-> frame, err |-> NoError]
Err(e) == [ok |-> FALSE, frame |-> NoFrame, err |-> e]

\* HeaderType taking whatever value "t" holds for a string.
HeaderType_AnyValue(map) ==
    IF HasKey(map, KeyT) THEN Some(MapGet(map, KeyT).bytes) ELSE None

\* The header's t: Some(s) when the map holds a string under "t".
HeaderType(map) ==
    IF HasKey(map, KeyT) /\ MapGet(map, KeyT).tag = "String"
      THEN Some(MapGet(map, KeyT).bytes)
    ELSE None

\* A header parse that takes every integer op other than 1 for an error frame.
FrameHeader_try_from_ElseError(value) ==
    IF /\ value.tag = "Map"
       /\ HasKey(value, KeyOp)
       /\ MapGet(value, KeyOp).tag = "Integer"
      THEN IF MapGet(value, KeyOp).int = 1
             THEN Ok(FrameMessage(HeaderType(value), <<>>))
           ELSE Ok(FrameError)
    ELSE Err(InvalidFrameType(value))

\* impl TryFrom<Ipld> for FrameHeader
FrameHeader_try_from(value) ==
    IF /\ value.tag = "Map"
       /\ HasKey(value, KeyOp)
       /\ MapGet(value, KeyOp).tag = "Integer"
       /\ MapGet(value, KeyOp).int \in {1, -1}
      THEN IF MapGet(value, KeyOp).int = 1
             THEN Ok(FrameMessage(HeaderType(value), <<>>))
           ELSE Ok(FrameError)
    ELSE Err(InvalidFrameType(value))

\* A decode that takes a header with nothing after it for a frame with an
\* empty body.
Frame_try_from_AcceptsNoBody(value) ==
    LET WithHeader(header, right) ==
          IF ~header.ok THEN header
          ELSE IF header.frame.variant = "Message"
            THEN Ok(FrameMessage(header.frame.t, right))
          ELSE Ok(FrameError)
        WithItem(r) ==
          IF r.res = "Error" THEN Err(InvalidFrameData(value))
          ELSE WithHeader(FrameHeader_try_from(r.val), Drop(value, r.pos))
    IN WithItem(from_reader(value))

\* A decode that reports the reader's own failures as CborDecode.
Frame_try_from_ReaderErrors(value) ==
    LET WithHeader(header, right) ==
          IF ~header.ok THEN header
          ELSE IF header.frame.variant = "Message"
            THEN Ok(FrameMessage(header.frame.t, right))
          ELSE Ok(FrameError)
        WithItem(r) ==
          IF r.res = "Error" THEN Err(CborDecode)
          ELSE IF r.res = "Ok" THEN Err(InvalidFrameData(value))
          ELSE WithHeader(FrameHeader_try_from(r.val), Drop(value, r.pos))
    IN WithItem(from_reader(value))

\* impl TryFrom<&[u8]> for Frame
Frame_try_from(value) ==
    LET WithHeader(header, right) ==
          IF ~header.ok THEN header
          ELSE IF header.frame.variant = "Message"
            THEN Ok(FrameMessage(header.frame.t, right))
          ELSE Ok(FrameError)
        \* let ipld = serde_ipld_dagcbor::from_slice::<Ipld>(left)?
        WithSplit(item, right) ==
          IF ~item.ok THEN Err(CborDecode)
          ELSE WithHeader(FrameHeader_try_from(item.val), right)
        \* match serde_ipld_dagcbor::from_reader::<Ipld, _>(&mut cursor)
        WithItem(r) ==
          IF r.res # "TrailingData" THEN Err(InvalidFrameData(value))
          ELSE WithSplit(from_slice(Take(value, r.pos)), Drop(value, r.pos))
    IN WithItem(from_reader(value))

(***************************************************************************)
(* The CAR reader: rs_car_sync::car_read_all(&mut reader, true).  A CAR is *)
(* a varint-prefixed DAG-CBOR header {roots, version: 1} and then blocks,  *)
(* each a varint length, a CID and the block's data; with verification on, *)
(* a block's digest must be the hash of its data.  sha2-256 is stood in    *)
(* for by a checksum of the same width.                                    *)
(***************************************************************************)
\* The sum of b[lo..hi], by halves.
RECURSIVE SumRange(_, _, _)
SumRange(b, lo, hi) ==
    IF lo > hi THEN 0
    ELSE IF lo = hi THEN b[lo]
    ELSE SumRange(b, lo, (lo + hi) \div 2) + SumRange(b, (lo + hi) \div 2 + 1, hi)
SumBytes(b, i) == SumRange(b, i, Len(b)) % 256

Sha256(data) == [i \in 1..DigestSize |-> (SumBytes(data, 1) + Len(data) + 7 * i) % 256]

CarFail == [ok |-> FALSE, blocks |-> <<>>]
Block(cid, data) == [cid |-> cid, data |-> data]

CarHeaderOk(h) ==
    /\ h.tag = "Map"
    /\ HasKey(h, KeyVersion) /\ MapGet(h, KeyVersion) = IpldInteger(1)
    /\ HasKey(h, KeyRoots) /\ MapGet(h, KeyRoots).tag = "List"
    /\ \A i \in 1..Len(MapGet(h, KeyRoots).items) :
          MapGet(h, KeyRoots).items[i].tag = "Link"

RECURSIVE CarBlocks(_, _, _)
CarBlocks(b, pos, acc) ==
    LET WithData(l, c, data) ==
          IF c.cid.code # SHA2_256 \/ c.cid.digest # Sha256(data) THEN CarFail
          ELSE CarBlocks(b, l.pos + l.n, Append(acc, Block(c.cid, data)))
        WithCid(l, c) ==
          IF ~c.ok THEN CarFail
          ELSE WithData(l, c, SubSeq(b, l.pos + c.pos + 1, l.pos + l.n))
        WithLength(l) ==
          IF ~l.ok \/ l.pos + l.n > Len(b) THEN CarFail
          ELSE WithCid(l, ReadCid(SubSeq(b, l.pos + 1, l.pos + l.n), 0))
    IN IF pos = Len(b) THEN [ok |-> TRUE, blocks |-> acc]
       ELSE WithLength(ReadVarint(b, pos, 1, 0))

car_read_all(b) ==
    LET WithHeader(h, header) ==
          IF ~header.ok THEN CarFail
          ELSE IF ~CarHeaderOk(header.val) THEN CarFail
          ELSE CarBlocks(b, h.pos + h.n, <<>>)
        WithLength(h) ==
          IF ~h.ok \/ h.n = 0 \/ h.pos + h.n > Len(b) THEN CarFail
          ELSE WithHeader(h, from_slice(SubSeq(b, h.pos + 1, h.pos + h.n)))
    IN WithLength(ReadVarint(b, 0, 1, 0))

(***************************************************************************)
(* serde_ipld_dagcbor::from_slice::<T> for atrium_api's types: the body is *)
(* one DAG-CBOR map that holds T's required fields, each of its kind; an   *)
(* optional field may be absent or null; further fields are kept (Object's *)
(* extra_data).  The string formats are checked in outline: a Did starts   *)
(* with "did:", a Handle holds a dot, a Datetime has RFC 3339's shape.     *)
(***************************************************************************)
Field(key, kind, req) == [key |-> key, kind |-> kind, req |-> req]

IsDid(x) == Len(x) > 4 /\ Take(x, 4) = <<100, 105, 100, 58>>
IsHandle(x) == \E i \in 2..(Len(x) - 1) : x[i] = 46
IsDatetime(x) ==
    /\ Len(x) >= 20
    /\ x[5] = 45 /\ x[8] = 45 /\ x[11] = 84 /\ x[14] = 58 /\ x[17] = 58

RepoOpSchema ==
    <<Field(KeyAction, "String", TRUE), Field(KeyPath, "String", TRUE),
      Field(KeyCid, "Link", FALSE)>>
StrongRefSchema == <<Field(KeyCid, "String", TRUE), Field(KeyUri, "String", TRUE)>>

RECURSIVE StructOk(_, _)
RECURSIVE KindOk(_, _)

KindOk(v, kind) ==
    CASE kind = "String" -> v.tag = "String"
      [] kind = "Integer" -> v.tag = "Integer"
      [] kind = "Bool" -> v.tag = "Bool"
      [] kind = "Bytes" -> v.tag = "Bytes"
      [] kind = "Link" -> v.tag = "Link"
      [] kind = "Did" -> v.tag = "String" /\ IsDid(v.bytes)
      [] kind = "Handle" -> v.tag = "String" /\ IsHandle(v.bytes)
      [] kind = "Datetime" -> v.tag = "String" /\ IsDatetime(v.bytes)
      [] kind = "Links" ->
           v.tag = "List" /\ \A i \in 1..Len(v.items) : v.items[i].tag = "Link"
      [] kind = "Ops" ->
           v.tag = "List" /\ \A i \in 1..Len(v.items) : StructOk(v.items[i], RepoOpSchema)
      [] kind = "StrongRef" -> StructOk(v, StrongRefSchema)
      [] OTHER -> FALSE

StructOk(v, schema) ==
    /\ v.tag = "Map"
    /\ \A i \in 1..Len(schema) :
          IF HasKey(v, schema[i].key)
            THEN \/ KindOk(MapGet(v, schema[i].key), schema[i].kind)
                 \/ ~schema[i].req /\ MapGet(v, schema[i].key) = IpldNull
          ELSE ~schema[i].req

from_slice_as(b, schema) ==
    LET Typed(r) ==
          IF r.ok /\ StructOk(r.val, schema) THEN r ELSE [ok |-> FALSE, val |-> IpldNone]
    IN Typed(from_slice(b))

\* com::atproto::sync::subscribe_repos::{Commit, Handle, Tombstone, Identity, Account}
CommitSchema ==
    <<Field(KeyBlobs, "Links", TRUE), Field(KeyBlocks, "Bytes", TRUE),
      Field(KeyCommit, "Link", TRUE), Field(KeyOps, "Ops", TRUE),
      Field(KeyPrev, "Link", FALSE), Field(KeyRebase, "Bool", TRUE),
      Field(KeyRepo, "Did", TRUE), Field(KeyRev, "String", TRUE),
      Field(KeySeq, "Integer", TRUE), Field(KeySince, "String", FALSE),
      Field(KeyTime, "Datetime", TRUE), Field(KeyTooBig, "Bool", TRUE)>>
HandleSchema ==
    <<Field(KeyDid, "Did", TRUE), Field(KeyHandle, "Handle", TRUE),
      Field(KeySeq, "Integer", TRUE), Field(KeyTime, "Datetime", TRUE)>>
TombstoneSchema ==
    <<Field(KeyDid, "Did", TRUE), Field(KeySeq, "Integer", TRUE),
      Field(KeyTime, "Datetime", TRUE)>>
IdentitySchema ==
    <<Field(KeyDid, "Did", TRUE), Field(KeyHandle, "Handle", FALSE),
      Field(KeySeq, "Integer", TRUE), Field(KeyTime, "Datetime", TRUE)>>
AccountSchema ==
    <<Field(KeyActive, "Bool", TRUE), Field(KeyDid, "Did", TRUE),
      Field(KeySeq, "Integer", TRUE), Field(KeyStatus, "String", FALSE),
      Field(KeyTime, "Datetime", TRUE)>>

\* app::bsky::*::Record, by the variant of Record that holds it.
RecordSchema(variant) ==
    CASE variant = "Post" ->
           <<Field(KeyText, "String", TRUE), Field(KeyCreatedAt, "Datetime", TRUE)>>
      [] variant \in {"Follow", "Block"} ->
           <<Field(KeySubject, "Did", TRUE), Field(KeyCreatedAt, "Datetime", TRUE)>>
      [] variant \in {"Repost", "Like"} ->
           <<Field(KeySubject, "StrongRef", TRUE), Field(KeyCreatedAt, "Datetime", TRUE)>>
      [] variant = "Listitem" ->
           <<Field(KeyList, "String", TRUE), Field(KeySubject, "Did", TRUE),
             Field(KeyCreatedAt, "Datetime", TRUE)>>
      [] variant = "Generator" ->
           <<Field(KeyDid, "Did", TRUE), Field(KeyDisplayName, "String", TRUE),
             Field(KeyCreatedAt, "Datetime", TRUE)>>
      [] variant = "List" ->
           <<Field(KeyName, "String", TRUE), Field(KeyPurpose, "String", TRUE),
             Field(KeyCreatedAt, "Datetime", TRUE)>>
      [] OTHER -> <<>>

(***************************************************************************)
(* The event decoder: src/src/lib.rs.                                      *)
(***************************************************************************)
NoRecord == [variant |-> "None", value |-> IpldNone]
Record(variant, value) == [variant |-> variant, value |-> value]

NoMeta == [collection |-> <<>>, rkey |-> <<>>]
OperationMeta(collection, rkey) == [collection |-> collection, rkey |-> rkey]

OperationCreate(meta, record, cid) ==
    [kind |-> "Create", operation_meta |-> meta, record |-> record, cid |-> cid]
OperationUpdate(meta, record, cid) ==
    [kind |-> "Update", operation_meta |-> meta, record |-> record, cid |-> cid]
OperationDelete(meta) ==
    [kind |-> "Delete", operation_meta |-> meta, record |-> NoRecord, cid |-> <<>>]

NoMsgError ==
    [kind |-> "None", t |-> <<>>, body |-> <<>>, operation |-> <<>>, path |-> <<>>,
     rev |-> <<>>, did |-> <<>>, operation_meta |-> NoMeta, record |-> NoRecord,
     cid |-> <<>>]
UnknownFrameType(t, body) ==
    [NoMsgError EXCEPT !.kind = "UnknownFrameType", !.t = t, !.body = body]
NoTypeInFrame(body) == [NoMsgError EXCEPT !.kind = "NoTypeInFrame", !.body = body]
FrameErrorError == [NoMsgError EXCEPT !.kind = "FrameError"]
DagCborDecodeError(body) ==
    [NoMsgError EXCEPT !.kind = "DagCborDecodeError", !.body = body]
CarDecodeError == [NoMsgError EXCEPT !.kind = "CarDecodeError"]
NoBlockForCommit(operation, rev, did, path) ==
    [NoMsgError EXCEPT !.kind = "NoBlockForCommit", !.operation = operation,
                       !.rev = rev, !.did = did, !.path = path]
UnknownCommitOperation(operation, meta, record, cid) ==
    [NoMsgError EXCEPT !.kind = "UnknownCommitOperation", !.operation = operation,
                       !.operation_meta = meta, !.record = record, !.cid = cid]

\* Result<FirehoseMessage, Error>, or a panic (an unwrap of an Err).
NoMessage ==
    [variant |-> "None", object |-> IpldNone, operations |-> <<>>,
     did |-> <<>>, rev |-> <<>>, time |-> <<>>]
MsgOk(m) == [ok |-> TRUE, panic |-> FALSE, msg |-> m, err |-> NoMsgError]
MsgErr(e) == [ok |-> FALSE, panic |-> FALSE, msg |-> NoMessage, err |-> e]
MsgPanic == [ok |-> FALSE, panic |-> TRUE, msg |-> NoMessage, err |-> NoMsgError]
MsgPending == MsgErr(NoMsgError)

\* FirehoseMessage::{Handle, Tombstone, Identity, Account}(object)
MessageOf(variant, object) == [NoMessage EXCEPT !.variant = variant, !.object = object]
\* FirehoseMessage::Commit { did, rev, time, operations, commit }
MessageCommit(commit, operations) ==
    [variant |-> "Commit", object |-> commit, operations |-> operations,
     did |-> MapGet(commit, KeyRepo).bytes, rev |-> MapGet(commit, KeyRev).bytes,
     time |-> MapGet(commit, KeyTime).bytes]

\* FirehoseMessage::kind, with FirehoseMessageKind::as_str
\* A variant of kind in which two arms are exchanged.
FirehoseMessage_kind_Swapped(m) ==
    CASE m.variant = "Commit" -> "commit"
      [] m.variant = "Handle" -> "identity"
      [] m.variant = "Tombstone" -> "tombstone"
      [] m.variant = "Identity" -> "handle"
      [] m.variant = "Account" -> "account"
      [] OTHER -> "none"

\* FirehoseMessage::kind
FirehoseMessage_kind(m) ==
    CASE m.variant = "Commit" -> "commit"
      [] m.variant = "Handle" -> "handle"
      [] m.variant = "Tombstone" -> "tombstone"
      [] m.variant = "Identity" -> "identity"
      [] m.variant = "Account" -> "account"
      [] OTHER -> "none"

\* op.path.split("/"): the segments between the slashes.
RECURSIVE SplitSlash(_, _, _)
SplitSlash(x, i, cur) ==
    IF i > Len(x) THEN <<cur>>
    ELSE IF x[i] = 47 THEN <<cur>> \o SplitSlash(x, i + 1, <<>>)
    ELSE SplitSlash(x, i + 1, Append(cur, x[i]))

\* (split.next().unwrap(), split.next()), with rkey.unwrap_or_default()
PathMeta(path) ==
    LET Parts(split) ==
          OperationMeta(split[1], IF Len(split) >= 2 THEN split[2] ELSE <<>>)
    IN Parts(SplitSlash(path, 1, <<>>))

RECURSIVE FindBlock(_, _, _)

\* A variant of the search that settles for the first block when no block has
\* the op's CID.
FindBlock_FallsBack(blocks, i, op_cid) ==
    LET WithCid(cid) ==
          IF ~cid.ok THEN [res |-> "Panic", block |-> Block(NoCid, <<>>)]
          ELSE IF cid.cid = op_cid THEN [res |-> "Some", block |-> blocks[i]]
          ELSE FindBlock(blocks, i + 1, op_cid)
    IN IF i > Len(blocks)
         THEN IF Len(blocks) = 0 THEN [res |-> "None", block |-> Block(NoCid, <<>>)]
              ELSE [res |-> "Some", block |-> blocks[1]]
       ELSE WithCid(CidOld_try_into(blocks[i].cid))

\* A variant of the search that takes the first block whatever its CID is.
FindBlock_FirstBlock(blocks, i, op_cid) ==
    LET WithCid(cid) ==
          IF ~cid.ok THEN [res |-> "Panic", block |-> Block(NoCid, <<>>)]
          ELSE [res |-> "Some", block |-> blocks[i]]
    IN IF i > Len(blocks) THEN [res |-> "None", block |-> Block(NoCid, <<>>)]
       ELSE WithCid(CidOld_try_into(blocks[i].cid))

\* blocks.iter().find(|(cid, _)| Cid::try_from(CidOld(cid)).unwrap() == op_cid)
FindBlock(blocks, i, op_cid) ==
    LET WithCid(cid) ==
          IF ~cid.ok THEN [res |-> "Panic", block |-> Block(NoCid, <<>>)]
          ELSE IF cid.cid = op_cid THEN [res |-> "Some", block |-> blocks[i]]
          ELSE FindBlock(blocks, i + 1, op_cid)
    IN IF i > Len(blocks) THEN [res |-> "None", block |-> Block(NoCid, <<>>)]
       ELSE WithCid(CidOld_try_into(blocks[i].cid))

\* A variant of the NSID match whose default arm is the post arm.
RecordVariant_OtherIsPost(nsid) ==
    CASE nsid = NsidFollow -> "Follow"
      [] nsid = NsidBlock -> "Block"
      [] nsid = NsidRepost -> "Repost"
      [] nsid = NsidLike -> "Like"
      [] nsid = NsidListitem -> "Listitem"
      [] nsid = NsidGenerator -> "Generator"
      [] nsid = NsidProfile -> "Profile"
      [] nsid = NsidList -> "List"
      [] OTHER -> "Post"

\* match nsid { bsky::feed::Post::NSID => Record::Post(..), .., _ => Record::Unknown(..) }
RecordVariant(nsid) ==
    CASE nsid = NsidPost -> "Post"
      [] nsid = NsidFollow -> "Follow"
      [] nsid = NsidBlock -> "Block"
      [] nsid = NsidRepost -> "Repost"
      [] nsid = NsidLike -> "Like"
      [] nsid = NsidListitem -> "Listitem"
      [] nsid = NsidGenerator -> "Generator"
      [] nsid = NsidProfile -> "Profile"
      [] nsid = NsidList -> "List"
      [] OTHER -> "Unknown"

DecodeRecord(nsid, data) ==
    LET WithValue(variant, r) ==
          [ok |-> r.ok, record |-> IF r.ok THEN Record(variant, r.val) ELSE NoRecord]
        WithVariant(variant) ==
          WithValue(variant, IF variant = "Unknown" THEN from_slice(data)
                             ELSE from_slice_as(data, RecordSchema(variant)))
    IN WithVariant(RecordVariant(nsid))

RECURSIVE CommitOperations(_, _, _, _, _)

\* A variant of the loop that looks for the op's cid before it looks at the
\* action: a delete without a cid is skipped like any other op without one.
CommitOperations_CidBeforeDelete(commit, blocks, body, i, acc) ==
    LET WithRecord(action, path, meta, op_cid, rec) ==
          IF ~rec.ok THEN MsgErr(DagCborDecodeError(body))
          ELSE IF action = ActionCreate
            THEN CommitOperations(commit, blocks, body, i + 1,
                   Append(acc, OperationCreate(meta, rec.record, CidToString(op_cid))))
          ELSE IF action = ActionUpdate
            THEN CommitOperations(commit, blocks, body, i + 1,
                   Append(acc, OperationUpdate(meta, rec.record, CidToString(op_cid))))
          ELSE MsgErr(UnknownCommitOperation(action, meta, rec.record,
                                             CidToString(op_cid)))
        WithBlock(action, path, meta, op_cid, found) ==
          IF found.res = "Panic" THEN MsgPanic
          ELSE IF found.res = "None"
            THEN MsgErr(NoBlockForCommit(action, MapGet(commit, KeyRev).bytes,
                                         MapGet(commit, KeyRepo).bytes, path))
          ELSE WithRecord(action, path, meta, op_cid,
                          DecodeRecord(meta.collection, found.block.data))
        WithCid(action, path, meta, op_cid) ==
          WithBlock(action, path, meta, op_cid, FindBlock(blocks, 1, op_cid))
        WithOp(op, action, path, meta) ==
          IF ~(HasKey(op, KeyCid) /\ MapGet(op, KeyCid).tag = "Link")
            THEN CommitOperations(commit, blocks, body, i + 1, acc)
          ELSE IF action = ActionDelete
            THEN CommitOperations(commit, blocks, body, i + 1,
                                  Append(acc, OperationDelete(meta)))
          ELSE WithCid(action, path, meta, CidFromBytes(MapGet(op, KeyCid).bytes).cid)
        ForOp(op) ==
          WithOp(op, MapGet(op, KeyAction).bytes, MapGet(op, KeyPath).bytes,
                 PathMeta(MapGet(op, KeyPath).bytes))
        ForOps(ops) ==
          IF i > Len(ops) THEN MsgOk(MessageCommit(commit, acc)) ELSE ForOp(ops[i])
    IN ForOps(MapGet(commit, KeyOps).items)

\* A variant of the loop that fails the commit at an op without a cid.
CommitOperations_MissingCidFails(commit, blocks, body, i, acc) ==
    LET WithRecord(action, path, meta, op_cid, rec) ==
          IF ~rec.ok THEN MsgErr(DagCborDecodeError(body))
          ELSE IF action = ActionCreate
            THEN CommitOperations(commit, blocks, body, i + 1,
                   Append(acc, OperationCreate(meta, rec.record, CidToString(op_cid))))
          ELSE IF action = ActionUpdate
            THEN CommitOperations(commit, blocks, body, i + 1,
                   Append(acc, OperationUpdate(meta, rec.record, CidToString(op_cid))))
          ELSE MsgErr(UnknownCommitOperation(action, meta, rec.record,
                                             CidToString(op_cid)))
        WithBlock(action, path, meta, op_cid, found) ==
          IF found.res = "Panic" THEN MsgPanic
          ELSE IF found.res = "None"
            THEN MsgErr(NoBlockForCommit(action, MapGet(commit, KeyRev).bytes,
                                         MapGet(commit, KeyRepo).bytes, path))
          ELSE WithRecord(action, path, meta, op_cid,
                          DecodeRecord(meta.collection, found.block.data))
        WithCid(action, path, meta, op_cid) ==
          WithBlock(action, path, meta, op_cid, FindBlock(blocks, 1, op_cid))
        WithOp(op, action, path, meta) ==
          IF action = ActionDelete
            THEN CommitOperations(commit, blocks, body, i + 1,
                                  Append(acc, OperationDelete(meta)))
          ELSE IF ~(HasKey(op, KeyCid) /\ MapGet(op, KeyCid).tag = "Link")
            THEN MsgErr(NoBlockForCommit(action, MapGet(commit, KeyRev).bytes,
                                         MapGet(commit, KeyRepo).bytes, path))
          ELSE WithCid(action, path, meta, CidFromBytes(MapGet(op, KeyCid).bytes).cid)
        ForOp(op) ==
          WithOp(op, MapGet(op, KeyAction).bytes, MapGet(op, KeyPath).bytes,
                 PathMeta(MapGet(op, KeyPath).bytes))
        ForOps(ops) ==
          IF i > Len(ops) THEN MsgOk(MessageCommit(commit, acc)) ELSE ForOp(ops[i])
    IN ForOps(MapGet(commit, KeyOps).items)

\* for op in &commit.ops { .. }, from the i-th op on, operations so far in acc.
CommitOperations(commit, blocks, body, i, acc) ==
    LET WithRecord(action, path, meta, op_cid, rec) ==
          IF ~rec.ok THEN MsgErr(DagCborDecodeError(body))
          ELSE IF action = ActionCreate
            THEN CommitOperations(commit, blocks, body, i + 1,
                   Append(acc, OperationCreate(meta, rec.record, CidToString(op_cid))))
          ELSE IF action = ActionUpdate
            THEN CommitOperations(commit, blocks, body, i + 1,
                   Append(acc, OperationUpdate(meta, rec.record, CidToString(op_cid))))
          ELSE MsgErr(UnknownCommitOperation(action, meta, rec.record,
                                             CidToString(op_cid)))
        WithBlock(action, path, meta, op_cid, found) ==
          IF found.res = "Panic" THEN MsgPanic
          ELSE IF found.res = "None"
            THEN MsgErr(NoBlockForCommit(action, MapGet(commit, KeyRev).bytes,
                                         MapGet(commit, KeyRepo).bytes, path))
          ELSE WithRecord(action, path, meta, op_cid,
                          DecodeRecord(meta.collection, found.block.data))
        WithCid(action, path, meta, op_cid) ==
          WithBlock(action, path, meta, op_cid, FindBlock(blocks, 1, op_cid))
        WithOp(op, action, path, meta) ==
          IF action = ActionDelete
            THEN CommitOperations(commit, blocks, body, i + 1,
                                  Append(acc, OperationDelete(meta)))
          ELSE IF ~(HasKey(op, KeyCid) /\ MapGet(op, KeyCid).tag = "Link")
            THEN CommitOperations(commit, blocks, body, i + 1, acc)
          ELSE WithCid(action, path, meta, CidFromBytes(MapGet(op, KeyCid).bytes).cid)
        ForOp(op) ==
          WithOp(op, MapGet(op, KeyAction).bytes, MapGet(op, KeyPath).bytes,
                 PathMeta(MapGet(op, KeyPath).bytes))
        ForOps(ops) ==
          IF i > Len(ops) THEN MsgOk(MessageCommit(commit, acc)) ELSE ForOp(ops[i])
    IN ForOps(MapGet(commit, KeyOps).items)

\* A variant of the arm that reads an undecodable CAR as one without blocks.
DecodeCommit_LazyCar(body) ==
    LET WithBlocks(commit, car) ==
          CommitOperations(commit.val, IF car.ok THEN car.blocks ELSE <<>>, body, 1, <<>>)
        WithCommit(commit) ==
          IF ~commit.ok THEN MsgErr(DagCborDecodeError(body))
          ELSE WithBlocks(commit, car_read_all(MapGet(commit.val, KeyBlocks).bytes))
    IN WithCommit(from_slice_as(body, CommitSchema))

\* The "#commit" arm.
DecodeCommit(body) ==
    LET WithBlocks(commit, car) ==
          IF ~car.ok THEN MsgErr(CarDecodeError)
          ELSE CommitOperations(commit.val, car.blocks, body, 1, <<>>)
        WithCommit(commit) ==
          IF ~commit.ok THEN MsgErr(DagCborDecodeError(body))
          ELSE WithBlocks(commit, car_read_all(MapGet(commit.val, KeyBlocks).bytes))
    IN WithCommit(from_slice_as(body, CommitSchema))

\* The "#account", "#handle", "#tombstone" and "#identity" arms.
DecodeObject(variant, schema, body) ==
    LET WithObject(object) ==
          IF ~object.ok THEN MsgErr(DagCborDecodeError(body))
          ELSE MsgOk(MessageOf(variant, object.val))
    IN WithObject(from_slice_as(body, schema))

\* A variant of the conversion that treats an empty type as a missing one.
FirehoseMessage_try_from_EmptyIsNone(frame) ==
    IF frame.variant = "Message" /\ frame.t.some /\ frame.t.v # <<>> THEN
      CASE frame.t.v = TagCommit -> DecodeCommit(frame.body)
        [] frame.t.v = TagAccount -> DecodeObject("Account", AccountSchema, frame.body)
        [] frame.t.v = TagHandle -> DecodeObject("Handle", HandleSchema, frame.body)
        [] frame.t.v = TagTombstone ->
             DecodeObject("Tombstone", TombstoneSchema, frame.body)
        [] frame.t.v = TagIdentity ->
             DecodeObject("Identity", IdentitySchema, frame.body)
        [] OTHER -> MsgErr(UnknownFrameType(frame.t.v, frame.body))
    ELSE IF frame.variant = "Message" THEN MsgErr(NoTypeInFrame(frame.body))
    ELSE MsgErr(FrameErrorError)

\* impl TryFrom<Frame> for FirehoseMessage
FirehoseMessage_try_from(frame) ==
    IF frame.variant = "Message" /\ frame.t.some THEN
      CASE frame.t.v = TagCommit -> DecodeCommit(frame.body)
        [] frame.t.v = TagAccount -> DecodeObject("Account", AccountSchema, frame.body)
        [] frame.t.v = TagHandle -> DecodeObject("Handle", HandleSchema, frame.body)
        [] frame.t.v = TagTombstone ->
             DecodeObject("Tombstone", TombstoneSchema, frame.body)
        [] frame.t.v = TagIdentity ->
             DecodeObject("Identity", IdentitySchema, frame.body)
        [] OTHER -> MsgErr(UnknownFrameType(frame.t.v, frame.body))
    ELSE IF frame.variant = "Message" THEN MsgErr(NoTypeInFrame(frame.body))
    ELSE MsgErr(FrameErrorError)

(***************************************************************************)
(* The transport: tokio_tungstenite's WebSocketStream, as the subscription *)
(* sees it through self.stream.next().  The peer's items are kept in       *)
(* upstream, in the order sent; the stream has handed out the first read   *)
(* of them.  An item is a message (Binary, Text, Ping, Pong, Close), a     *)
(* transport error (Error) or the end of the connection (End).             *)
(***************************************************************************)
MaxMsgs == 3
MaxIdleCalls == 2

WsItem(kind, data) == [kind |-> kind, data |-> data]
EndedItem == [kind |-> "Ended", data |-> <<>>]

\* A poll that hands out the newest item sent instead of the oldest unread one.
StreamPoll_Newest(up, read, ended) == IF ended THEN EndedItem ELSE up[Len(up)]

\* What the stream's poll hands to next: the next item sent, or, once the
\* stream has ended (an error or the end was returned), nothing ever again.
StreamPoll(up, read, ended) == IF ended THEN EndedItem ELSE up[read + 1]

\* A match that also takes a text message's bytes for a payload.
IsBinary_OrText(polled) == polled.kind \in {"Binary", "Text"}

\* Some(Ok(Message::Binary(data))) is the one shape next's `if let` matches.
IsBinary(polled) == polled.kind = "Binary"

ResultSome(r) == [kind |-> "Some", res |-> r]
ResultNone == [kind |-> "None", res |-> Err(NoError)]

\* A next that ends the stream on a payload that does not decode.
RepoSubscription_next_DropsErr(polled) ==
    IF IsBinary(polled) /\ Frame_try_from(polled.data).ok
      THEN ResultSome(Frame_try_from(polled.data))
    ELSE ResultNone

\* RepoSubscription::next, from the item the stream's poll returned.
RepoSubscription_next(polled) ==
    IF IsBinary(polled) THEN ResultSome(Frame_try_from(polled.data))
    ELSE ResultNone

(***************************************************************************)
(* The payloads the decoders are run on.  An input keeps how its bytes     *)
(* were built, so that what the decoder returns can be compared with what  *)
(* was encoded:                                                            *)
(*   shape "map":  a header map, with op and t as given (IpldNone: the key *)
(*                 is absent) in the order given, then body;               *)
(*   shape "item": a header item that is not a map, then body;             *)
(*   shape "raw":  bytes that do not start with a well-formed item.        *)
(***************************************************************************)
MaxOp == 2
MaxBodyLen == 2

BodyBytes == {0, 160, 255}

RECURSIVE SeqsUpTo(_, _)
SeqsUpTo(S, n) ==
    IF n = 0 THEN {<<>>}
    ELSE SeqsUpTo(S, n - 1) \cup
         {Append(q, x) : q \in {r \in SeqsUpTo(S, n - 1) : Len(r) = n - 1}, x \in S}

RawBodies == SeqsUpTo(BodyBytes, MaxBodyLen)

TypeStrings ==
    {TagCommit, TagHandle, TagTombstone, TagIdentity, TagAccount, TagInfo, TagNoHash, <<>>}

OpEntries ==
    {IpldInteger(i) : i \in (0 - MaxOp)..MaxOp}
      \cup {IpldInteger(24), IpldInteger(-25), IpldString(<<49>>), IpldNull, IpldNone}
TEntries ==
    {IpldString(x) : x \in TypeStrings} \cup {IpldInteger(5), IpldNull, IpldNone}

HeaderKeys(op, t, order) ==
    IF order = "op_t"
      THEN (IF op = IpldNone THEN <<>> ELSE <<KeyOp>>) \o (IF t = IpldNone THEN <<>> ELSE <<KeyT>>)
    ELSE (IF t = IpldNone THEN <<>> ELSE <<KeyT>>) \o (IF op = IpldNone THEN <<>> ELSE <<KeyOp>>)
HeaderItems(op, t, order) ==
    IF order = "op_t"
      THEN (IF op = IpldNone THEN <<>> ELSE <<op>>) \o (IF t = IpldNone THEN <<>> ELSE <<t>>)
    ELSE (IF t = IpldNone THEN <<>> ELSE <<t>>) \o (IF op = IpldNone THEN <<>> ELSE <<op>>)
HeaderBytes(op, t, order) ==
    EncodeMap(HeaderKeys(op, t, order), HeaderItems(op, t, order))

NoInput ==
    [shape |-> "none", op |-> IpldNone, t |-> IpldNone, order |-> "op_t",
     item |-> IpldNone, body |-> <<>>, bytes |-> <<>>,
     ops |-> <<>>, table |-> <<>>, car |-> "none"]
MapInput(op, t, order, body) ==
    [NoInput EXCEPT !.shape = "map", !.op = op, !.t = t, !.order = order,
                    !.body = body, !.bytes = HeaderBytes(op, t, order) \o body]
ItemInput(v, body) ==
    [NoInput EXCEPT !.shape = "item", !.item = v, !.body = body,
                    !.bytes = EncodeItem(v) \o body]
RawInput(b) == [NoInput EXCEPT !.shape = "raw", !.bytes = b]

\* {"op":1,"t":"#commit"}: a2626f700161746723636f6d6d6974
CommitHeader == HeaderBytes(IpldInteger(1), IpldString(TagCommit), "op_t")

NonMapItems ==
    {IpldInteger(1), IpldInteger(-1), IpldString(KeyOp), IpldNull, IpldBool(TRUE),
     IpldBytes(<<1>>), IpldList(<<IpldInteger(1)>>)}

\* Bytes no decoder reads an item from: a reserved additional information (28),
\* an indefinite-length map, a map with an integer key, a text string that is
\* not UTF-8, a tag other than 42, a simple value DAG-CBOR does not have
\* (undefined).
BadStarts ==
    {<<28>>, <<191, 98, 111, 112, 1, 255>>, <<161, 1, 1>>, <<97, 255>>, <<193, 1>>, <<247>>}
\* The proper prefixes of a header: the item is cut short.
CutHeaders == {Take(CommitHeader, n) : n \in 0..(Len(CommitHeader) - 1)}

(***************************************************************************)
(* Bodies that hold an event: the objects of the four plain events, and    *)
(* commits with their CAR blob.                                            *)
(***************************************************************************)
CidOf(data) == CidV1(DAG_CBOR, SHA2_256, Sha256(data))
LinkTo(data) == IpldLink(CidBytes(CidOf(data)))

EncodeBlock(cid, data) ==
    EncodeVarint(Len(CidBytes(cid)) + Len(data)) \o CidBytes(cid) \o data
RECURSIVE EncodeBlocks(_)
EncodeBlocks(datas) ==
    IF Len(datas) = 0 THEN <<>>
    ELSE EncodeBlock(CidOf(Head(datas)), Head(datas)) \o EncodeBlocks(Tail(datas))
\* A CAR whose blocks hold datas, each under its own CID; the first is the root.
EncodeCar(datas) ==
    LET header == EncodeMap(<<KeyRoots, KeyVersion>>,
                            <<IpldList(<<LinkTo(Head(datas))>>), IpldInteger(1)>>)
    IN EncodeVarint(Len(header)) \o header \o EncodeBlocks(datas)

PostData ==
    EncodeMap(<<KeyText, KeyCreatedAt>>, <<IpldString(TextHi), IpldString(TimeA)>>)
\* The commit object's own block (its content is not looked at).
RootData == EncodeMap(<<KeyDid, KeyRev>>, <<IpldString(DidA), IpldString(RevA)>>)

RepoOp(action, path, cid) ==
    IpldMap(<<KeyAction, KeyCid, KeyPath>>, <<IpldString(action), cid, IpldString(path)>>)

CommitBody(ops, blocks) ==
    EncodeMap(<<KeyOps, KeyRev, KeySeq, KeyRepo, KeyTime, KeyBlobs, KeySince,
                KeyBlocks, KeyCommit, KeyRebase, KeyTooBig>>,
              <<IpldList(ops), IpldString(RevA), IpldInteger(7), IpldString(DidA),
                IpldString(TimeA), IpldList(<<>>), IpldNull, IpldBytes(blocks),
                LinkTo(RootData), IpldBool(FALSE), IpldBool(FALSE)>>)

HandleBody ==
    EncodeMap(<<KeyDid, KeyHandle, KeySeq, KeyTime>>,
              <<IpldString(DidA), IpldString(HandleA), IpldInteger(7), IpldString(TimeA)>>)
TombstoneBody ==
    EncodeMap(<<KeyDid, KeySeq, KeyTime>>,
              <<IpldString(DidA), IpldInteger(7), IpldString(TimeA)>>)
AccountBody ==
    EncodeMap(<<KeyDid, KeySeq, KeyTime, KeyActive>>,
              <<IpldString(DidA), IpldInteger(7), IpldString(TimeA), IpldBool(TRUE)>>)
\* An object whose did is not a DID: no event type accepts it.
NoDidBody ==
    EncodeMap(<<KeyDid, KeyHandle, KeySeq, KeyTime, KeyActive>>,
              <<IpldString(NotADid), IpldString(HandleA), IpldInteger(7),
                IpldString(TimeA), IpldBool(TRUE)>>)

CommitNoOps == CommitBody(<<>>, EncodeCar(<<RootData>>))
CommitCreatePost ==
    CommitBody(<<RepoOp(ActionCreate, PathPost, LinkTo(PostData))>>,
               EncodeCar(<<RootData, PostData>>))
CommitDeletePost ==
    CommitBody(<<RepoOp(ActionDelete, PathPost, IpldNull)>>, EncodeCar(<<RootData>>))
CommitNoBlock ==
    CommitBody(<<RepoOp(ActionUpdate, PathPost, LinkTo(PostData))>>,
               EncodeCar(<<RootData>>))
CommitMove ==
    CommitBody(<<RepoOp(ActionMove, PathPost, LinkTo(PostData))>>,
               EncodeCar(<<RootData, PostData>>))
CommitBadCar == CommitBody(<<>>, <<1, 2, 3>>)

EventBodies ==
    {HandleBody, TombstoneBody, AccountBody, NoDidBody, CommitNoOps, CommitCreatePost,
     CommitDeletePost, CommitNoBlock, CommitMove, CommitBadCar}

Bodies == RawBodies

\* Frames that carry an event body under each type, and error frames.
EventInputs ==
    {MapInput(op, t, "op_t", body) :
        op \in {IpldInteger(1), IpldInteger(-1)}, t \in TEntries, body \in EventBodies}

(***************************************************************************)
(* Commits described by their ops and their block table.  An op names its  *)
(* action and path and how it declares a cid: the key left out ("absent"), *)
(* null ("null"), or a link to the CID of data ("link"); stored tells      *)
(* whether the commit's CAR holds a block of that data.                    *)
(***************************************************************************)
MaxCommitOps == 2

OpSample(action, path, link, data, stored) ==
    [action |-> action, path |-> path, link |-> link, data |-> data, stored |-> stored]

PathNoSlash == NsidPost
PathTrailingSlash == NsidPost \o <<47>>
PathTwoSlashes == NsidPost \o <<47, 97, 47, 98>>
PathLeadingSlash == <<47, 120>>
PathEmpty == <<>>
PathOf(nsid) == nsid \o <<47, 51, 107>>

SubjectRef ==
    IpldMap(<<KeyCid, KeyUri>>, <<IpldString(TextHi), IpldString(PathPost)>>)
FollowData ==
    EncodeMap(<<KeySubject, KeyCreatedAt>>, <<IpldString(DidA), IpldString(TimeA)>>)
LikeData == EncodeMap(<<KeySubject, KeyCreatedAt>>, <<SubjectRef, IpldString(TimeA)>>)
ListitemData ==
    EncodeMap(<<KeyList, KeySubject, KeyCreatedAt>>,
              <<IpldString(PathPost), IpldString(DidA), IpldString(TimeA)>>)
GeneratorData ==
    EncodeMap(<<KeyDid, KeyDisplayName, KeyCreatedAt>>,
              <<IpldString(DidA), IpldString(TextHi), IpldString(TimeA)>>)
ProfileData == EncodeMap(<<KeyDisplayName>>, <<IpldString(TextHi)>>)
ListData ==
    EncodeMap(<<KeyName, KeyPurpose, KeyCreatedAt>>,
              <<IpldString(TextHi), IpldString(TextHi), IpldString(TimeA)>>)
StarterpackData ==
    EncodeMap(<<KeyName, KeyList, KeyCreatedAt>>,
              <<IpldString(TextHi), IpldString(PathPost), IpldString(TimeA)>>)
NewthingData == EncodeMap(<<KeyName>>, <<IpldInteger(3)>>)
\* Bytes that are no DAG-CBOR item (an indefinite-length map).
NoCborData == <<191, 255>>

\* The ten collections the specification names, each with a record of its kind.
KnownCollections ==
    {<<NsidPost, PostData>>, <<NsidFollow, FollowData>>, <<NsidBlock, FollowData>>,
     <<NsidRepost, LikeData>>, <<NsidLike, LikeData>>, <<NsidListitem, ListitemData>>,
     <<NsidGenerator, GeneratorData>>, <<NsidProfile, ProfileData>>,
     <<NsidList, ListData>>, <<NsidStarterpack, StarterpackData>>}

\* Ops that are combined with each other, in every order.
CoreOps ==
    {OpSample(ActionCreate, PathPost, "link", PostData, TRUE),
     OpSample(ActionUpdate, PathPost, "link", PostData, TRUE),
     OpSample(ActionDelete, PathPost, "null", <<>>, FALSE),
     OpSample(ActionDelete, PathPost, "link", PostData, TRUE),
     OpSample(ActionDelete, PathPost, "link", NewthingData, FALSE),
     OpSample(ActionCreate, PathPost, "null", <<>>, FALSE),
     OpSample(ActionUpdate, PathPost, "link", FollowData, FALSE),
     OpSample(ActionMove, PathPost, "link", PostData, TRUE),
     OpSample(ActionMove, PathPost, "null", <<>>, FALSE)}

\* Ops that vary the path, the collection and the record's block.
PathOps ==
    {OpSample(action, path, "link", PostData, TRUE) :
        action \in {ActionCreate, ActionDelete},
        path \in {PathNoSlash, PathTrailingSlash, PathTwoSlashes, PathLeadingSlash,
                  PathEmpty}}
CollectionOps ==
    {OpSample(ActionCreate, PathOf(c[1]), "link", c[2], TRUE) : c \in KnownCollections}
      \cup {OpSample(ActionUpdate, PathOf(NsidNewthing), "link", NewthingData, TRUE),
            OpSample(ActionCreate, PathOf(NsidNewthing), "link", PostData, TRUE),
            OpSample(ActionCreate, PathOf(NsidNewthing), "link", NoCborData, TRUE),
            OpSample(ActionCreate, PathOf(NsidPost), "link", FollowData, TRUE),
            OpSample(ActionUpdate, PathPost, "absent", <<>>, FALSE),
            OpSample(ActionMove, PathPost, "link", FollowData, FALSE),
            OpSample(ActionMove, PathOf(NsidPost), "link", FollowData, TRUE)}

OpSeqs ==
    UNION {[1..n -> CoreOps] : n \in 0..MaxCommitOps}
      \cup {<<o>> : o \in PathOps \cup CollectionOps}
      \cup {<<OpSample(ActionDelete, PathPost, "null", <<>>, FALSE), o>> :
              o \in PathOps \cup CollectionOps}

\* The op as the commit's ops list holds it.
RepoOpOf(o) ==
    CASE o.link = "absent" ->
           IpldMap(<<KeyAction, KeyPath>>, <<IpldString(o.action), IpldString(o.path)>>)
      [] o.link = "null" -> RepoOp(o.action, o.path, IpldNull)
      [] OTHER -> RepoOp(o.action, o.path, LinkTo(o.data))

\* A block of the table: its data under a version 1 (dag-cbor) or a version 0
\* (dag-pb) CID of it.
TableBlock(data, version) == [data |-> data, version |-> version]
TableCid(blk) ==
    IF blk.version = 0 THEN CidV0(Sha256(blk.data)) ELSE CidOf(blk.data)

RECURSIVE StoredBlocks(_, _)
StoredBlocks(ops, i) ==
    IF i > Len(ops) THEN <<>>
    ELSE (IF ops[i].stored THEN <<TableBlock(ops[i].data, 1)>> ELSE <<>>)
           \o StoredBlocks(ops, i + 1)
RECURSIVE Version0Blocks(_, _)
Version0Blocks(ops, i) ==
    IF i > Len(ops) THEN <<>>
    ELSE (IF ops[i].stored THEN <<TableBlock(ops[i].data, 0)>> ELSE <<>>)
           \o Version0Blocks(ops, i + 1)

\* The block tables a commit of these ops is sent with: the commit's block and
\* one block for each stored record; or the same with a version 0 block of
\* each record in front and every record's block stored twice.
TableOf(ops, layout) ==
    IF layout = "plain" THEN <<TableBlock(RootData, 1)>> \o StoredBlocks(ops, 1)
    ELSE <<TableBlock(RootData, 1)>> \o Version0Blocks(ops, 1)
           \o StoredBlocks(ops, 1) \o StoredBlocks(ops, 1)

RECURSIVE EncodeTable(_)
EncodeTable(table) ==
    IF Len(table) = 0 THEN <<>>
    ELSE EncodeBlock(TableCid(Head(table)), Head(table).data) \o EncodeTable(Tail(table))
EncodeCarOf(table) ==
    LET header == EncodeMap(<<KeyRoots, KeyVersion>>,
                            <<IpldList(<<LinkTo(RootData)>>), IpldInteger(1)>>)
    IN EncodeVarint(Len(header)) \o header \o EncodeTable(table)

\* What the commit's blocks field holds: the CAR of the table ("valid"), that
\* CAR cut one byte short ("cut"), or bytes that are no CAR ("garbage").
BlocksField(table, car) ==
    CASE car = "valid" -> EncodeCarOf(table)
      [] car = "cut" -> Take(EncodeCarOf(table), Len(EncodeCarOf(table)) - 1)
      [] OTHER -> <<1, 2, 3>>

RECURSIVE RepoOps(_, _)
RepoOps(ops, i) ==
    IF i > Len(ops) THEN <<>> ELSE <<RepoOpOf(ops[i])>> \o RepoOps(ops, i + 1)

CommitInput(ops, layout, car) ==
    [MapInput(IpldInteger(1), IpldString(TagCommit), "op_t",
              CommitBody(RepoOps(ops, 1), BlocksField(TableOf(ops, layout), car)))
       EXCEPT !.shape = "commit", !.ops = ops, !.table = TableOf(ops, layout),
              !.car = car]

CommitInputs ==
    {CommitInput(ops, layout, "valid") : ops \in OpSeqs, layout \in {"plain", "doubled"}}
      \cup {CommitInput(ops, "plain", car) :
              ops \in {q \in OpSeqs : Len(q) <= 1}, car \in {"cut", "garbage"}}

Inputs ==
    {MapInput(op, t, order, body) :
        op \in OpEntries, t \in TEntries, order \in {"op_t", "t_op"}, body \in Bodies}
      \cup {ItemInput(v, body) : v \in NonMapItems, body \in Bodies}
      \cup {RawInput(b \o body) : b \in BadStarts, body \in Bodies}
      \cup {RawInput(b) : b \in CutHeaders}
      \cup EventInputs
      \cup CommitInputs

\* The payloads the peer sends on the stream: a message frame, an error frame,
\* a header that nothing follows, a header with op = 2, and a cut header.
StreamInputs ==
    {MapInput(IpldInteger(1), IpldString(TagCommit), "op_t", <<160>>),
     MapInput(IpldInteger(-1), IpldNone, "op_t", <<160>>),
     MapInput(IpldInteger(1), IpldString(TagCommit), "op_t", <<>>),
     MapInput(IpldInteger(2), IpldString(TagCommit), "op_t", <<160>>),
     RawInput(Take(CommitHeader, 5))}
StreamPayloads == {i.bytes : i \in StreamInputs}
\* Those that are a well-formed frame: a header map with op 1 or -1, then a body.
WellFormedPayloads ==
    {i.bytes : i \in {j \in StreamInputs :
        j.shape = "map" /\ j.op \in {IpldInteger(1), IpldInteger(-1)} /\ Len(j.body) > 0}}

WsItems ==
    {WsItem("Binary", d) : d \in StreamPayloads}
      \cup {WsItem(k, <<>>) : k \in {"Text", "Ping", "Pong", "Close", "Error", "End"}}

(***************************************************************************)
(* The state.                                                              *)
(*   conn      "none", "failed" (connect returned Err), "open" (a          *)
(*             RepoSubscription exists), "dropped"                         *)
(*   upstream  the items the peer has sent on this connection, in order    *)
(*   read      how many of them the stream has handed out                  *)
(*   ended     the stream's own end flag: it returned an error or its end  *)
(*   history   the calls of next that have returned on this subscription,  *)
(*             in order: the item the stream's poll gave the call, and     *)
(*             what the call returned                                      *)
(*   input, stage, frameRes, msgRes: a payload, what Frame::try_from made  *)
(*             of it and what FirehoseMessage::try_from made of the frame  *)
(*   prog      the example program that runs the consume loop: "main"      *)
(*             (src/main.rs), "exporter" (firehose_consume_loop), or       *)
(*             "none" when no loop runs                                    *)
(*   pc        where the loop is: "connect" (about to call                 *)
(*             RepoSubscription::new), "sleep" (the exporter's pause after *)
(*             a failed connect), "poll" (awaiting next under the          *)
(*             timeout), "panicked" (the unwrap of a failed connect), or   *)
(*             "idle"                                                      *)
(*   log       what the loop has logged since it last went to connect,     *)
(*             after the event that sent it there                          *)
(***************************************************************************)
VARIABLES conn, upstream, read, ended, history, input, stage, frameRes, msgRes,
          prog, pc, log

subVars == <<conn, upstream, read, ended, history>>
decVars == <<input, stage, frameRes, msgRes>>
loopVars == <<prog, pc, log>>
vars == <<conn, upstream, read, ended, history, input, stage, frameRes, msgRes,
          prog, pc, log>>

\* No consume loop runs.
NoLoop == prog = "none" /\ pc = "idle" /\ log = <<>>

Call(polled, ret) == [item |-> polled, ret |-> ret]
calls == Len(history)
\* The k-th call was made while Streaming: no call before it returned None.
Streaming(k) == \A j \in 1..(k - 1) : history[j].ret.kind = "Some"

Fresh(c) ==
    /\ conn' = c
    /\ upstream' = <<>>
    /\ read' = 0
    /\ ended' = FALSE
    /\ history' = <<>>

Init ==
    /\ conn = "none"
    /\ upstream = <<>>
    /\ read = 0
    /\ ended = FALSE
    /\ history = <<>>
    /\ input = NoInput
    /\ stage = "idle"
    /\ frameRes = Err(NoError)
    /\ msgRes = MsgPending
    /\ NoLoop

\* RepoSubscription::new: connect_async succeeded, the subscription owns the stream.
Connect ==
    /\ conn \in {"none", "failed", "dropped"}
    /\ Fresh("open")
    /\ UNCHANGED decVars
    /\ UNCHANGED loopVars

\* RepoSubscription::new: into_client_request or connect_async failed (`?`).
ConnectFail ==
    /\ conn \in {"none", "dropped"}
    /\ Fresh("failed")
    /\ UNCHANGED decVars
    /\ UNCHANGED loopVars

\* The caller drops the subscription, and the websocket with it.
DropSubscription ==
    /\ conn = "open"
    /\ Fresh("dropped")
    /\ UNCHANGED decVars
    /\ UNCHANGED loopVars

\* After a Close message the connection only ends; after an error or the end
\* nothing follows.
CanSend(up, kind) ==
    IF up = <<>> THEN TRUE
    ELSE /\ up[Len(up)].kind \notin {"Error", "End"}
         /\ (up[Len(up)].kind = "Close" => kind = "End")

\* The peer sends one more item.
Deliver ==
    /\ conn = "open"
    /\ Len(upstream) < MaxMsgs
    /\ \E w \in WsItems :
          /\ CanSend(upstream, w.kind)
          /\ upstream' = Append(upstream, w)
    /\ UNCHANGED <<conn, read, ended, history>>
    /\ UNCHANGED decVars
    /\ UNCHANGED loopVars

\* RepoSubscription::next returns: the await on self.stream.next() completes
\* when the stream has an item to hand out, or has ended.
SubscriptionNext ==
    /\ conn = "open"
    /\ ended \/ read < Len(upstream)
    /\ calls - read < MaxIdleCalls
    /\ LET polled == StreamPoll(upstream, read, ended) IN
          /\ read' = IF ended THEN read ELSE read + 1
          /\ ended' = (ended \/ polled.kind \in {"Error", "End"})
          /\ history' = Append(history, Call(polled, RepoSubscription_next(polled)))
    /\ UNCHANGED <<conn, upstream>>
    /\ UNCHANGED decVars
    /\ UNCHANGED loopVars

Next ==
    \/ Connect
    \/ ConnectFail
    \/ DropSubscription
    \/ Deliver
    \/ SubscriptionNext

Spec == Init /\ [][Next]_vars

(***************************************************************************)
(* The decoders as pure functions: a payload is drawn and Frame::try_from  *)
(* is applied to it, or a caller builds a Frame itself (its fields are     *)
(* public); FirehoseMessage::try_from is then applied to the frame.        *)
(***************************************************************************)
BuiltFrames ==
    {FrameMessage(t, body) :
        t \in {Some(x) : x \in TypeStrings} \cup {None}, body \in {<<>>, HandleBody}}
      \cup {FrameError}

DecodeInit ==
    /\ conn = "none"
    /\ upstream = <<>>
    /\ read = 0
    /\ ended = FALSE
    /\ history = <<>>
    /\ input \in Inputs \cup {NoInput}
    /\ stage = "input"
    /\ frameRes = Err(NoError)
    /\ msgRes = MsgPending
    /\ NoLoop

DecodeFrame ==
    /\ stage = "input"
    /\ input # NoInput
    /\ frameRes' = Frame_try_from(input.bytes)
    /\ stage' = "frame"
    /\ UNCHANGED <<input, msgRes>>
    /\ UNCHANGED subVars
    /\ UNCHANGED loopVars

BuildFrame ==
    /\ stage = "input"
    /\ input = NoInput
    /\ \E f \in BuiltFrames : frameRes' = Ok(f)
    /\ stage' = "frame"
    /\ UNCHANGED <<input, msgRes>>
    /\ UNCHANGED subVars
    /\ UNCHANGED loopVars

DispatchFrame ==
    /\ stage = "frame"
    /\ frameRes.ok
    /\ msgRes' = FirehoseMessage_try_from(frameRes.frame)
    /\ stage' = "message"
    /\ UNCHANGED <<input, frameRes>>
    /\ UNCHANGED subVars
    /\ UNCHANGED loopVars

DecodeNext ==
    \/ DecodeFrame
    \/ BuildFrame
    \/ DispatchFrame

DecodeSpec == DecodeInit /\ [][DecodeNext]_vars

(***************************************************************************)
(* The consume loops of the example programs: main (src/main.rs) and       *)
(* firehose_consume_loop (examples/bluesky-prometheus-exporter.rs).  Each  *)
(* connects, then polls next under a 30-second timeout for as long as the  *)
(* result is Ok(Some(frame)); a frame is decoded and handled; when the     *)
(* inner loop ends the subscription is dropped and the outer loop starts   *)
(* over.  The 30 seconds elapse only while the stream has nothing to hand  *)
(* out.                                                                    *)
(***************************************************************************)
MaxLoopMsgs == 2

\* What the peer sends to a loop: a #handle event, a #commit frame whose body
\* is no commit, a frame whose header has op = 2; messages that are not
\* binary; a transport error; the end of the connection.
LoopPayloads ==
    {MapInput(IpldInteger(1), IpldString(TagHandle), "op_t", HandleBody).bytes,
     MapInput(IpldInteger(1), IpldString(TagCommit), "op_t", <<160>>).bytes,
     MapInput(IpldInteger(2), IpldString(TagCommit), "op_t", <<160>>).bytes}
LoopItems ==
    {WsItem("Binary", d) : d \in LoopPayloads}
      \cup {WsItem(k, <<>>) : k \in {"Text", "Close", "Error", "End"}}

\* fn handle_frame(frame): FirehoseMessage::try_from(frame)?, then Ok(())
handle_frame(frame) == FirehoseMessage_try_from(frame).ok

\* The body of `while let Ok(Some(frame))`, by what it logs: the warning of a
\* frame that did not decode, the error of a frame handle_frame rejected, or
\* nothing.
FrameEvent(frame) ==
    IF ~frame.ok THEN "skipped"
    ELSE IF ~handle_frame(frame.frame) THEN "handle-error"
    ELSE "handled"

\* next and the loop's body over the items a loop is sent, as functions of
\* the item.
LoopResults == [w \in LoopItems \cup {EndedItem} |-> RepoSubscription_next(w)]
LoopEvents ==
    [w \in {x \in LoopItems : IsBinary(x)} |-> FrameEvent(RepoSubscription_next(w).res)]

\* After the body, `continue` or the end of the body: the inner loop polls again.
AfterFrame(event) == "poll"

\* A connect handled with a retry in both programs.
AfterConnectError_Retries(p) == "sleep"

\* RepoSubscription::new returned Err: main unwraps it, firehose_consume_loop
\* logs it and sleeps a second before `continue`.
AfterConnectError(p) == IF p = "main" THEN "panicked" ELSE "sleep"

LoopInit ==
    /\ conn = "none"
    /\ upstream = <<>>
    /\ read = 0
    /\ ended = FALSE
    /\ history = <<>>
    /\ input = NoInput
    /\ stage = "idle"
    /\ frameRes = Err(NoError)
    /\ msgRes = MsgPending
    /\ prog \in {"main", "exporter"}
    /\ pc = "connect"
    /\ log = <<"start">>

\* RepoSubscription::new(..) returned Ok: the inner loop starts.
LoopConnect ==
    /\ pc = "connect"
    /\ Fresh("open")
    /\ pc' = "poll"
    /\ log' = Append(log, "connected")
    /\ UNCHANGED prog
    /\ UNCHANGED decVars

\* RepoSubscription::new(..) returned Err.
LoopConnectFail ==
    /\ pc = "connect"
    /\ Fresh("failed")
    /\ pc' = AfterConnectError(prog)
    /\ log' = Append(log, "connect-error")
    /\ UNCHANGED prog
    /\ UNCHANGED decVars

\* tokio::time::sleep(Duration::from_secs(1)).await; continue
LoopSleep ==
    /\ pc = "sleep"
    /\ pc' = "connect"
    /\ log' = <<"connect-error">>
    /\ UNCHANGED <<prog, conn, upstream, read, ended, history>>
    /\ UNCHANGED decVars

\* The peer sends one more item to the loop's subscription.
LoopDeliver ==
    /\ pc = "poll"
    /\ conn = "open"
    /\ Len(upstream) < MaxLoopMsgs
    /\ \E w \in LoopItems :
          /\ CanSend(upstream, w.kind)
          /\ upstream' = Append(upstream, w)
    /\ UNCHANGED <<conn, read, ended, history>>
    /\ UNCHANGED decVars
    /\ UNCHANGED loopVars

\* timeout(..) gave Ok(Some(frame)): the body of the inner loop runs.
LoopFrame ==
    /\ pc = "poll"
    /\ conn = "open"
    /\ ended \/ read < Len(upstream)
    /\ LET polled == StreamPoll(upstream, read, ended) IN
          /\ LoopResults[polled].kind = "Some"
          /\ read' = read + 1
          /\ history' = Append(history, Call(polled, LoopResults[polled]))
          /\ log' = Append(log, LoopEvents[polled])
          /\ pc' = AfterFrame(LoopEvents[polled])
    /\ UNCHANGED <<prog, conn, upstream, ended>>
    /\ UNCHANGED decVars

\* timeout(..) gave Ok(None): the inner loop ends, the subscription is dropped
\* and the outer loop starts over.
LoopNone ==
    /\ pc = "poll"
    /\ conn = "open"
    /\ ended \/ read < Len(upstream)
    /\ LoopResults[StreamPoll(upstream, read, ended)].kind = "None"
    /\ Fresh("dropped")
    /\ pc' = "connect"
    /\ log' = <<"none">>
    /\ UNCHANGED prog
    /\ UNCHANGED decVars

\* timeout(..) gave Err(Elapsed): 30 seconds went by with nothing to hand out.
LoopTimeout ==
    /\ pc = "poll"
    /\ conn = "open"
    /\ ~ended /\ read = Len(upstream)
    /\ Fresh("dropped")
    /\ pc' = "connect"
    /\ log' = <<"elapsed">>
    /\ UNCHANGED prog
    /\ UNCHANGED decVars

\* The steps of the program itself.
LoopStep ==
    \/ LoopConnect
    \/ LoopConnectFail
    \/ LoopSleep
    \/ LoopFrame
    \/ LoopNone
    \/ LoopTimeout

LoopNext ==
    \/ LoopStep
    \/ LoopDeliver

\* The program keeps running: a step of it that stays possible is taken.
LoopSpec == LoopInit /\ [][LoopNext]_vars /\ WF_vars(LoopStep)

(***************************************************************************)
(* The subscription's claims.                                              *)
(***************************************************************************)

\* C1: for a binary message next returns Some: Some(Ok(_)) when the payload is a
\* well-formed frame, Some(Err(_)) when it is not; and after a call that
\* returned Some(Err(_)) the following call reads the following message and
\* returns Some(Ok(_)) when that message is a well-formed binary frame.
C1_DecodeFailureKeepsStreaming ==
    \A k \in 1..calls :
        /\ history[k].item.kind = "Binary" =>
              /\ history[k].ret.kind = "Some"
              /\ history[k].ret.res.ok = (history[k].item.data \in WellFormedPayloads)
        /\ (k > 1 /\ history[k - 1].ret.kind = "Some" /\ ~history[k - 1].ret.res.ok) =>
              /\ history[k - 1].item = upstream[k - 1]
              /\ history[k].item = upstream[k]
              /\ (upstream[k].kind = "Binary" /\ upstream[k].data \in WellFormedPayloads
                    => history[k].ret.kind = "Some" /\ history[k].ret.res.ok)

\* A call returned Some(Err(_)) and the call after it returned Some(Ok(_)).
C1_Witness ==
    \E k \in 2..calls :
        /\ history[k - 1].ret.kind = "Some" /\ ~history[k - 1].ret.res.ok
        /\ history[k].ret.kind = "Some" /\ history[k].ret.res.ok

\* C2: while Streaming the k-th call consumes exactly the k-th message sent, and
\* what it returns is the decoding of that message: Some(decode) for a binary
\* message, in upstream order, nothing reordered, merged, repeated or dropped.
C2_FifoOneMessagePerCall ==
    /\ \A k \in 1..calls : Streaming(k) =>
          /\ k <= read
          /\ history[k].item = upstream[k]
          /\ (upstream[k].kind = "Binary" =>
                history[k].ret = ResultSome(Frame_try_from(upstream[k].data)))
    /\ Streaming(calls + 1) => read = calls

\* Three calls were made while Streaming, on three different binary messages.
C2_Witness ==
    /\ calls = 3
    /\ Streaming(calls + 1)
    /\ \A k \in 1..3 : upstream[k].kind = "Binary"
    /\ upstream[1] # upstream[2] /\ upstream[2] # upstream[3] /\ upstream[1] # upstream[3]

\* C3: next returns None exactly when the item read is not a binary message (a
\* text, ping, pong or close message, a transport error, the end of the stream),
\* and then no frame is decoded or yielded.
C3_NoneIffNotBinary ==
    \A k \in 1..calls :
        /\ (history[k].ret.kind = "None") = (history[k].item.kind # "Binary")
        /\ history[k].ret.kind = "None" => history[k].ret.res = Err(NoError)

\* Calls have returned None on a text message, on a transport error and on the
\* ended stream.
C3_Witness ==
    /\ \E k \in 1..calls : history[k].item.kind = "Text" /\ history[k].ret.kind = "None"
    /\ \E k \in 1..calls : history[k].item.kind = "Error" /\ history[k].ret.kind = "None"
    /\ \E k \in 1..calls : history[k].item.kind = "Ended" /\ history[k].ret.kind = "None"

\* C4: once next has returned None, every later call on the same subscription
\* returns None.  (The subscription keeps no closed flag: after a text, ping or
\* pong message the next call polls the stream again.)
C4_ClosedIsTerminal ==
    \A k \in 1..calls : ~Streaming(k) => history[k].ret.kind = "None"

(***************************************************************************)
(* The frame codec's claims, under DecodeSpec.                             *)
(***************************************************************************)
Decoded == stage # "input" /\ input # NoInput
OpIs(i) == input.op = IpldInteger(i)
\* What the header's t should come out as.
TypeOf(in) == IF in.t.tag = "String" THEN Some(in.t.bytes) ELSE None

\* C5: a header map with op = 1 followed by at least one byte decodes to
\* Frame::Message(type, body): type is Some(s) when t is the string s, None when
\* t is missing or not a string; body is exactly the bytes after the header.
C5_MessageFrame ==
    (Decoded /\ input.shape = "map" /\ OpIs(1) /\ Len(input.body) >= 1) =>
        frameRes = Ok(FrameMessage(TypeOf(input), input.body))

\* A message frame came out of a header that holds t before op, with its type
\* and a body of two bytes.
C5_Witness ==
    /\ Decoded /\ input.shape = "map" /\ input.order = "t_op"
    /\ frameRes.ok /\ frameRes.frame.variant = "Message"
    /\ frameRes.frame.t = Some(TagIdentity)
    /\ Len(frameRes.frame.body) = 2

\* C6, as stated: op alone decides: op = -1 gives Frame::Error whatever t and
\* the body are; op missing, not an integer, or an integer other than 1 and -1
\* gives InvalidFrameType; only op = 1 gives a Message.
C6_OpAloneDecides ==
    (Decoded /\ input.shape = "map") =>
        /\ OpIs(-1) => frameRes = Ok(FrameError)
        /\ (~OpIs(1) /\ ~OpIs(-1)) => frameRes.err.kind = "InvalidFrameType"
        /\ (frameRes.ok /\ frameRes.frame.variant = "Message") => OpIs(1)

\* C6, amended: the same for a header map that at least one byte follows; a
\* header map that nothing follows fails with InvalidFrameData whatever op is.
C6_OpDecidesGivenBody ==
    (Decoded /\ input.shape = "map") =>
        /\ Len(input.body) >= 1 =>
              /\ OpIs(-1) => frameRes = Ok(FrameError)
              /\ (~OpIs(1) /\ ~OpIs(-1)) =>
                    /\ ~frameRes.ok
                    /\ frameRes.err.kind = "InvalidFrameType"
                    /\ frameRes.err.value.tag = "Map"
              /\ (frameRes.ok /\ frameRes.frame.variant = "Message") => OpIs(1)
        /\ Len(input.body) = 0 => frameRes = Err(InvalidFrameData(input.bytes))

\* An error frame came out of a header that also holds t = "#commit".
C6_Witness ==
    /\ Decoded /\ input.shape = "map" /\ OpIs(-1)
    /\ input.t = IpldString(TagCommit) /\ Len(input.body) = 2
    /\ frameRes = Ok(FrameError)

\* C7, as stated: a header item that is not a map, or a header that consumes
\* the whole payload: InvalidFrameData; malformed header bytes: CborDecode;
\* InvalidFrameType only for a header map whose op is missing or not 1 or -1.
C7_ErrorKindsAsStated ==
    Decoded =>
        /\ input.shape = "item" => frameRes.err.kind = "InvalidFrameData"
        /\ (input.shape = "map" /\ Len(input.body) = 0) =>
              frameRes.err.kind = "InvalidFrameData"
        /\ input.shape = "raw" => frameRes.err.kind = "CborDecode"
        /\ frameRes.err.kind = "InvalidFrameType" =>
              input.shape = "map" /\ ~OpIs(1) /\ ~OpIs(-1)

\* C7, amended: InvalidFrameData when the reader does not find one complete item
\* with data after it (malformed or cut header bytes, or an item that consumes
\* the whole payload); InvalidFrameType when a complete item is followed by at
\* least one byte and is not a map, or is a map whose op is missing, not an
\* integer or not 1 or -1; CborDecode never.
C7_ErrorKinds ==
    Decoded =>
        /\ (input.shape = "raw" \/ Len(input.body) = 0) =>
              frameRes = Err(InvalidFrameData(input.bytes))
        /\ (input.shape = "item" /\ Len(input.body) >= 1) =>
              frameRes = Err(InvalidFrameType(input.item))
        /\ (input.shape = "map" /\ Len(input.body) >= 1 /\ ~OpIs(1) /\ ~OpIs(-1)) =>
              ~frameRes.ok /\ frameRes.err.kind = "InvalidFrameType"
        /\ frameRes.err.kind # "CborDecode"
        /\ frameRes.err.kind = "InvalidFrameType" =>
              /\ Len(input.body) >= 1
              /\ input.shape = "item" \/ (input.shape = "map" /\ ~OpIs(1) /\ ~OpIs(-1))

\* A header item that is an integer, with a body after it, failed with
\* InvalidFrameType.
C7_Witness ==
    /\ Decoded /\ input.shape = "item" /\ input.item = IpldInteger(1)
    /\ Len(input.body) = 1
    /\ frameRes.err.kind = "InvalidFrameType"

\* a2626f700161746723636f6d6d6974
C8_Payload == <<162, 98, 111, 112, 1, 97, 116, 103, 35, 99, 111, 109, 109, 105, 116>>

\* C8, as stated: the payload that is exactly the header {"op":1,"t":"#commit"}
\* decodes to Message(Some("#commit"), body) with an empty body.
C8_HeaderOnlyIsMessage ==
    (Decoded /\ input.bytes = C8_Payload) =>
        frameRes = Ok(FrameMessage(Some(TagCommit), <<>>))

\* C8, amended: that payload fails with InvalidFrameData (nothing follows the
\* header); its bytes alone parse as the header Message(Some("#commit")), and
\* with a body after them decode to Message(Some("#commit"), body).
C8_HeaderOnlyIsInvalidFrameData ==
    /\ (Decoded /\ input.bytes = C8_Payload) =>
          /\ frameRes = Err(InvalidFrameData(C8_Payload))
          /\ FrameHeader_try_from(from_slice(input.bytes).val)
               = Ok(FrameMessage(Some(TagCommit), <<>>))
    /\ (Decoded /\ Len(input.body) >= 1 /\ input.bytes = C8_Payload \o input.body) =>
          frameRes = Ok(FrameMessage(Some(TagCommit), input.body))

\* The header-only payload was decoded.
C8_Witness ==
    /\ Decoded /\ input.bytes = C8_Payload /\ input.shape = "map"
    /\ ~frameRes.ok

(***************************************************************************)
(* The event decoder's dispatch.                                           *)
(***************************************************************************)
Dispatched == stage = "message"
DispatchedFrame == frameRes.frame
KnownTags == {TagCommit, TagHandle, TagTombstone, TagIdentity, TagAccount}

\* C9: FirehoseMessage::try_from rejects an Error frame with FrameError, a
\* Message frame without a type with NoTypeInFrame, and a Message frame
\* whose type is none of the five known tags with UnknownFrameType carrying
\* that type, whatever the body holds.
C9_RejectedFrames ==
    Dispatched =>
        /\ DispatchedFrame.variant = "Error" => msgRes = MsgErr(FrameErrorError)
        /\ (DispatchedFrame.variant = "Message" /\ ~DispatchedFrame.t.some) =>
              /\ ~msgRes.ok /\ ~msgRes.panic
              /\ msgRes.err.kind = "NoTypeInFrame"
        /\ (/\ DispatchedFrame.variant = "Message"
            /\ DispatchedFrame.t.some
            /\ DispatchedFrame.t.v \notin KnownTags) =>
              /\ ~msgRes.ok /\ ~msgRes.panic
              /\ msgRes.err.kind = "UnknownFrameType"
              /\ msgRes.err.t = DispatchedFrame.t.v

\* A frame of an unknown type whose body is a well-formed handle event was
\* rejected by its type.
C9_Witness ==
    /\ Dispatched
    /\ DispatchedFrame = FrameMessage(Some(TagInfo), HandleBody)
    /\ msgRes.err.kind = "UnknownFrameType"
    /\ msgRes.err.t = TagInfo

\* The kind each type tag names.
KindNamedBy(t) ==
    CASE t = TagCommit -> "commit"
      [] t = TagHandle -> "handle"
      [] t = TagTombstone -> "tombstone"
      [] t = TagIdentity -> "identity"
      [] t = TagAccount -> "account"
      [] OTHER -> "unknown"

\* C10: whenever FirehoseMessage::try_from succeeds on Message(Some(t), _),
\* t is one of the five known tags and the kind of the message is the one t
\* names; two different tags never give the same kind.
C10_KindFollowsTag ==
    /\ (Dispatched /\ msgRes.ok) =>
          /\ DispatchedFrame.variant = "Message"
          /\ DispatchedFrame.t.some
          /\ DispatchedFrame.t.v \in KnownTags
          /\ FirehoseMessage_kind(msgRes.msg) = KindNamedBy(DispatchedFrame.t.v)
    /\ \A t1, t2 \in KnownTags : KindNamedBy(t1) = KindNamedBy(t2) => t1 = t2

\* A "#handle" frame decoded from a payload gave a message of kind handle.
C10_Witness ==
    /\ Dispatched /\ msgRes.ok
    /\ input # NoInput
    /\ DispatchedFrame = FrameMessage(Some(TagHandle), HandleBody)
    /\ msgRes.msg.variant = "Handle"

(***************************************************************************)
(* Commits: the ops of the commit as sent, against the operations emitted. *)
(***************************************************************************)
CommitCase == Dispatched /\ input.shape = "commit"
Emitted == msgRes.msg.operations
IsDeleteOp(o) == o.action = ActionDelete
DeclaresCid(o) == o.link = "link"
\* A block of the table is stored under the version 1 CID the op declares.
InTable(o, table) ==
    \E k \in 1..Len(table) : table[k].version = 1 /\ table[k].data = o.data

\* C11: in a successfully decoded commit every op with action "delete" is
\* emitted as a Delete of its collection and rkey, without a block lookup and
\* whatever its cid is (not declared, declared with a block, declared without
\* one); the Deletes emitted are as many as the delete ops, and a Delete
\* carries no record and no cid.
C11_DeletesEmitted ==
    /\ (CommitCase /\ msgRes.ok) =>
          /\ Cardinality({j \in 1..Len(Emitted) : Emitted[j].kind = "Delete"})
               = Cardinality({i \in 1..Len(input.ops) : IsDeleteOp(input.ops[i])})
          /\ \A j \in 1..Len(Emitted) :
                Emitted[j].kind = "Delete" =>
                    Emitted[j].record = NoRecord /\ Emitted[j].cid = <<>>
    /\ (/\ CommitCase
        /\ input.car = "valid"
        /\ \A i \in 1..Len(input.ops) : IsDeleteOp(input.ops[i])) =>
          /\ msgRes.ok
          /\ Len(Emitted) = Len(input.ops)
          /\ \A i \in 1..Len(input.ops) :
                /\ Emitted[i].kind = "Delete"
                /\ input.ops[i].path = PathPost =>
                      Emitted[i].operation_meta
                        = OperationMeta(NsidPost, <<51, 107, 97, 98, 99>>)

\* A commit of a delete whose cid has no block and a delete without a cid
\* gave two Deletes.
C11_Witness ==
    /\ CommitCase /\ msgRes.ok
    /\ input.ops = <<OpSample(ActionDelete, PathPost, "link", NewthingData, FALSE),
                     OpSample(ActionDelete, PathPost, "null", <<>>, FALSE)>>
    /\ Len(Emitted) = 2
    /\ Emitted[1].kind = "Delete" /\ Emitted[2].kind = "Delete"

\* The ops that give an operation: the deletes and the ops that declare a cid.
Survives(o) == IsDeleteOp(o) \/ DeclaresCid(o)
KindOfAction(action) ==
    CASE action = ActionCreate -> "Create"
      [] action = ActionUpdate -> "Update"
      [] action = ActionDelete -> "Delete"
      [] OTHER -> "None"
\* A create or update of a post whose block is stored: an op that decodes.
IsStoredPost(o) ==
    /\ o.action \in {ActionCreate, ActionUpdate}
    /\ o.path = PathPost /\ DeclaresCid(o) /\ o.data = PostData /\ o.stored

\* C12: for every commit that decodes successfully the operations emitted are
\* the commit's ops in their order with the non-delete ops that declare no cid
\* left out: one operation for each remaining op, of that op's kind, so the
\* number of operations is the number of ops less the non-delete ops without
\* a cid; and a non-delete op without a cid never makes the commit fail.
C12_OperationsAreSurvivingOps ==
    /\ (CommitCase /\ msgRes.ok) =>
          /\ Len(Emitted) = Len(SelectSeq(input.ops, Survives))
          /\ Len(Emitted)
               = Len(input.ops)
                   - Cardinality({i \in 1..Len(input.ops) :
                                    ~IsDeleteOp(input.ops[i])
                                      /\ ~DeclaresCid(input.ops[i])})
          /\ \A j \in 1..Len(Emitted) :
                Emitted[j].kind = KindOfAction(SelectSeq(input.ops, Survives)[j].action)
    /\ (/\ CommitCase
        /\ input.car = "valid"
        /\ \A i \in 1..Len(input.ops) :
              \/ ~Survives(input.ops[i])
              \/ IsDeleteOp(input.ops[i])
              \/ IsStoredPost(input.ops[i])) =>
          msgRes.ok

\* A commit of a create without a cid and an update of a stored post gave the
\* one Update.
C12_Witness ==
    /\ CommitCase /\ msgRes.ok
    /\ input.ops = <<OpSample(ActionCreate, PathPost, "null", <<>>, FALSE),
                     OpSample(ActionUpdate, PathPost, "link", PostData, TRUE)>>
    /\ Len(Emitted) = 1
    /\ Emitted[1].kind = "Update"

\* A non-delete op that declares a cid no block of the table is stored under.
LacksBlock(o, table) == ~IsDeleteOp(o) /\ DeclaresCid(o) /\ ~InTable(o, table)
\* The decoder gets to the i-th op: every op before it was emitted or skipped.
Reaches(ops, i) ==
    \A j \in 1..(i - 1) : ~Survives(ops[j]) \/ IsDeleteOp(ops[j]) \/ IsStoredPost(ops[j])

\* C13: a commit with a non-delete op that declares a cid no block of the
\* commit's CAR matches fails as a whole: no message is produced and nothing
\* of the operations built from earlier ops is emitted; the decoder, on
\* getting to that op, fails with NoBlockForCommit carrying the op's action
\* and path and the commit's rev and repo.
C13_NoBlockFailsCommit ==
    (CommitCase /\ input.car = "valid") =>
        \A i \in 1..Len(input.ops) :
            LacksBlock(input.ops[i], input.table) =>
                /\ ~msgRes.ok /\ ~msgRes.panic
                /\ msgRes.msg = NoMessage
                /\ Reaches(input.ops, i) =>
                      msgRes.err = NoBlockForCommit(input.ops[i].action, RevA, DidA,
                                                    input.ops[i].path)

\* After a create of a stored post, an update whose block is not stored
\* failed the commit.
C13_Witness ==
    /\ CommitCase /\ input.car = "valid"
    /\ input.ops = <<OpSample(ActionCreate, PathPost, "link", PostData, TRUE),
                     OpSample(ActionUpdate, PathPost, "link", FollowData, FALSE)>>
    /\ msgRes.err.kind = "NoBlockForCommit"
    /\ msgRes.err.operation = ActionUpdate
    /\ msgRes.msg.operations = <<>>

\* The first block of the table that is stored under cid.
FirstStored(table, cid) ==
    CHOOSE k \in 1..Len(table) :
        /\ TableCid(table[k]) = cid
        /\ \A m \in 1..(k - 1) : TableCid(table[m]) # cid

\* C14: every Create or Update emitted for a commit carries one record,
\* decoded from a block of the commit's CAR whose CID equals the cid the op
\* declares (the first such block of the table), and its cid field is the
\* string form of the declared cid.
C14_RecordFromMatchingBlock ==
    (CommitCase /\ msgRes.ok) =>
        \A j \in 1..Len(Emitted) :
            Emitted[j].kind \in {"Create", "Update"} =>
                LET o == SelectSeq(input.ops, Survives)[j]
                    declared == CidOf(o.data)
                IN /\ DeclaresCid(o)
                   /\ \E k \in 1..Len(input.table) : TableCid(input.table[k]) = declared
                   /\ Emitted[j].record.variant # "None"
                   /\ from_slice(input.table[FirstStored(input.table, declared)].data)
                        = [ok |-> TRUE, val |-> Emitted[j].record.value]
                   /\ Emitted[j].cid = CidToString(declared)

\* An update whose record's block is stored twice, behind a block of the same
\* data under another CID, gave an Update with the record.
C14_Witness ==
    /\ CommitCase /\ msgRes.ok
    /\ input.ops = <<OpSample(ActionUpdate, PathOf(NsidNewthing), "link",
                              NewthingData, TRUE)>>
    /\ Len(input.table) = 4
    /\ Len(Emitted) = 1
    /\ Emitted[1].kind = "Update"
    /\ Emitted[1].record.value = IpldMap(<<KeyName>>, <<IpldInteger(3)>>)

\* The path of an op read as "collection/rkey": the text before the first
\* slash, and all the text after it.
FirstSlash(path) ==
    IF \E i \in 1..Len(path) : path[i] = 47
    THEN CHOOSE i \in 1..Len(path) :
            path[i] = 47 /\ \A m \in 1..(i - 1) : path[m] # 47
    ELSE 0
CollectionOf(path) ==
    IF FirstSlash(path) = 0 THEN path ELSE SubSeq(path, 1, FirstSlash(path) - 1)
RkeyOf(path) ==
    IF FirstSlash(path) = 0 THEN <<>>
    ELSE SubSeq(path, FirstSlash(path) + 1, Len(path))

\* The variant named for each of the ten record collections.
TypedVariant(nsid) ==
    CASE nsid = NsidPost -> "Post"
      [] nsid = NsidFollow -> "Follow"
      [] nsid = NsidBlock -> "Block"
      [] nsid = NsidRepost -> "Repost"
      [] nsid = NsidLike -> "Like"
      [] nsid = NsidListitem -> "Listitem"
      [] nsid = NsidGenerator -> "Generator"
      [] nsid = NsidProfile -> "Profile"
      [] nsid = NsidList -> "List"
      [] nsid = NsidStarterpack -> "Starterpack"
      [] OTHER -> "Unknown"
TenNsids == {c[1] : c \in KnownCollections}
TypedNsids == TenNsids \ {NsidStarterpack}

\* C15: a Create or Update of a record in one of the ten known collections
\* (post, follow, block, repost, like, listitem, generator, profile, list,
\* starterpack) carries the typed variant of that collection, Starterpack
\* for app.bsky.graph.starterpack.
C15_TenNsidsTyped ==
    (CommitCase /\ msgRes.ok) =>
        \A j \in 1..Len(Emitted) :
            LET o == SelectSeq(input.ops, Survives)[j]
            IN (/\ Emitted[j].kind \in {"Create", "Update"}
                /\ CollectionOf(o.path) \in TenNsids) =>
                  Emitted[j].record.variant = TypedVariant(CollectionOf(o.path))

\* A create or update in a collection outside the typed ones whose block is
\* stored and holds well-formed DAG-CBOR.
IsUnknownRecordOp(o) ==
    /\ o.action \in {ActionCreate, ActionUpdate}
    /\ DeclaresCid(o) /\ o.stored
    /\ CollectionOf(o.path) \notin TypedNsids
    /\ from_slice(o.data).ok

\* C16: a create or update whose collection is none of the typed NSIDs, and
\* whose block is found and is well-formed DAG-CBOR, is emitted with
\* Record::Unknown holding the block's raw IPLD tree; such an op does not make
\* the commit fail: a commit of deletes and such ops decodes.
C16_UnknownNsidIsUnknownRecord ==
    /\ (CommitCase /\ msgRes.ok) =>
          \A j \in 1..Len(Emitted) :
              LET o == SelectSeq(input.ops, Survives)[j]
              IN IsUnknownRecordOp(o) =>
                    /\ Emitted[j].kind = KindOfAction(o.action)
                    /\ Emitted[j].record = Record("Unknown", from_slice(o.data).val)
    /\ (/\ CommitCase
        /\ input.car = "valid"
        /\ \A i \in 1..Len(input.ops) :
              IsDeleteOp(input.ops[i]) \/ IsUnknownRecordOp(input.ops[i])) =>
          msgRes.ok /\ ~msgRes.panic

\* A delete followed by a create in an unknown collection, whose block holds
\* a post, gave a Create with the raw tree.
C16_Witness ==
    /\ CommitCase /\ msgRes.ok
    /\ input.ops = <<OpSample(ActionDelete, PathPost, "null", <<>>, FALSE),
                     OpSample(ActionCreate, PathOf(NsidNewthing), "link", PostData, TRUE)>>
    /\ Len(Emitted) = 2
    /\ Emitted[2].kind = "Create"
    /\ Emitted[2].operation_meta.collection = NsidNewthing
    /\ Emitted[2].record.variant = "Unknown"
    /\ Emitted[2].record.value = from_slice(PostData).val

KnownActions == {ActionCreate, ActionUpdate, ActionDelete}

\* C17: an op whose action is none of create, update, delete is an error:
\* whenever the decoder gets to such an op the commit fails with
\* UnknownCommitOperation carrying the op's action; the op is neither emitted
\* nor skipped.
C17_UnknownActionIsError ==
    (CommitCase /\ input.car = "valid") =>
        \A i \in 1..Len(input.ops) :
            (input.ops[i].action \notin KnownActions /\ Reaches(input.ops, i)) =>
                /\ ~msgRes.ok
                /\ msgRes.err.kind = "UnknownCommitOperation"
                /\ msgRes.err.operation = input.ops[i].action

\* C18: the meta of every emitted operation is its op's path split on the
\* first '/': collection is the text before it, rkey all the text after it
\* (further slashes included), and rkey is empty when the path has no '/' or
\* ends with its first '/'.
C18_MetaSplitsOnFirstSlash ==
    (CommitCase /\ msgRes.ok) =>
        \A j \in 1..Len(Emitted) :
            LET o == SelectSeq(input.ops, Survives)[j]
            IN Emitted[j].operation_meta
                 = OperationMeta(CollectionOf(o.path), RkeyOf(o.path))

\* CIDs of several codecs, hash functions (identity, sha2-256, blake2b-256)
\* and digest lengths, as the old CID type reads them.
SampleCids ==
    {CidV1(codec, code, [i \in 1..n |-> i]) :
        codec \in {DAG_CBOR, 85},
        code \in {0, SHA2_256, 45600},
        n \in {0, DigestSize, MaxDigestSize, MaxDigestSize + 1}}
      \cup {CidV0([i \in 1..DigestSize |-> i])}
\* A CID that was read converts.
Converts(r) == r.ok => CidOld_try_into(r.cid).ok

C20_CarDecodedFirst ==
    (CommitCase /\ input.car # "valid") =>
        /\ ~msgRes.ok /\ ~msgRes.panic
        /\ msgRes.err = CarDecodeError
        /\ msgRes.msg = NoMessage

\* A commit of one delete without a cid, sent with a CAR cut short, failed
\* with CarDecodeError.
C20_Witness ==
    /\ CommitCase
    /\ input.car = "cut"
    /\ input.ops = <<OpSample(ActionDelete, PathPost, "null", <<>>, FALSE)>>
    /\ ~msgRes.ok
    /\ msgRes.err.kind = "CarDecodeError"

(***************************************************************************)
(* The consume loops' claim.                                               *)
(***************************************************************************)
\* This step ran the inner loop's body on a frame that did not decode or
\* that handle_frame rejected.
LoggedFrameError ==
    /\ pc = "poll"
    /\ Len(log') = Len(log) + 1
    /\ log'[Len(log')] \in {"skipped", "handle-error"}

\* Such a step logs and goes on with the same subscription: it stays open,
\* nothing of what the peer sent is lost, the frame is consumed and the inner
\* loop polls again.
SkippedFramesKeepPolling ==
    LoggedFrameError =>
        /\ conn = "open" /\ conn' = "open"
        /\ upstream' = upstream
        /\ read' = read + 1
        /\ pc' = "poll"

\* The inner loop is left only towards a new connect, and only when next
\* returned None or the 30 seconds elapsed with nothing to hand out.
LeavesOnlyOnNoneOrTimeout ==
    (pc = "poll" /\ pc' # "poll") =>
        /\ pc' = "connect"
        /\ \/ /\ log' = <<"none">>
              /\ ended \/ read < Len(upstream)
              /\ RepoSubscription_next(StreamPoll(upstream, read, ended)) = ResultNone
           \/ /\ log' = <<"elapsed">>
              /\ ~ended /\ read = Len(upstream)

\* A subscription is opened only at the start, after the inner loop was left
\* that way, or (firehose_consume_loop) after a failed connect.
OpensOnlyAfterEnd ==
    (conn # "open" /\ conn' = "open") =>
        /\ pc = "connect"
        /\ log \in {<<"start">>, <<"none">>, <<"elapsed">>, <<"connect-error">>}
        /\ log = <<"connect-error">> => prog = "exporter"

\* main unwraps the result of RepoSubscription::new.
MainPanicsOnConnectError ==
    (prog = "main" /\ pc = "connect" /\ conn' = "failed") => pc' = "panicked"

\* C21 as stated: a frame that next yields as Err or that
\* FirehoseMessage::try_from rejects is logged and skipped while the same
\* subscription keeps being polled; a new connection is opened only after
\* next returned None or no result arrived within 30 seconds; and then the
\* loop, in both programs, always connects again and never exits.
C21_LoopNeverExits ==
    /\ [][SkippedFramesKeepPolling]_vars
    /\ [][LeavesOnlyOnNoneOrTimeout]_vars
    /\ [][OpensOnlyAfterEnd]_vars
    /\ [](log[1] \in {"none", "elapsed"} => pc # "panicked")
    /\ (pc = "connect" /\ log[1] \in {"none", "elapsed"}) ~> (pc \in {"poll", "sleep"})

\* C21, amended: skipped frames and the way out of the inner loop as stated;
\* once the inner loop is left a connect is always attempted.
\* firehose_consume_loop never exits: after a failed connect it sleeps and
\* connects again.  main exits, by the panic of its unwrap, when a connect
\* fails, and only then.
C21_LoopReconnectsOrPanics ==
    /\ [][SkippedFramesKeepPolling]_vars
    /\ [][LeavesOnlyOnNoneOrTimeout]_vars
    /\ [][OpensOnlyAfterEnd]_vars
    /\ [][MainPanicsOnConnectError]_vars
    /\ [](pc = "panicked" => prog = "main" /\ conn = "failed")
    /\ (pc = "connect") ~> (pc \in {"poll", "sleep", "panicked"})
    /\ (pc = "sleep") ~> (pc = "connect")
    /\ (prog = "exporter" /\ pc = "connect") ~> (pc \in {"poll", "sleep"})

\* main, after 30 seconds without a result, went to connect again; the
\* connect failed and main panicked.
C21_Witness ==
    /\ prog = "main"
    /\ pc = "panicked"
    /\ conn = "failed"
    /\ log = <<"elapsed", "connect-error">>

====
